---- MODULE Spec2Model ----
(***************************************************************************)
(* VIRTUFS, the virtual file system simulator (class VirtualFileSystem),   *)
(* modelled as a state machine over a heap of JavaScript objects.          *)
(*                                                                         *)
(* Representation                                                          *)
(*   - a JavaScript string is a sequence of one-character strings          *)
(*     ("/a/b" is <<"/","a","/","b">>); file content is a sequence of      *)
(*     character codes, because corruption and repair work on codes;       *)
(*   - an object is an address into `heap`; 0 is null; an object that no   *)
(*     root (live tree, clipboard, snapshots, the listeners of the page)   *)
(*     reaches is collected, and the addresses of a state are numbered in  *)
(*     the order a walk from the roots meets them (addresses are not       *)
(*     observable in JavaScript);                                          *)
(*   - `rendered` is what the last renderFileExplorer() left in the page:  *)
(*     the items (their data-path and the node their listeners close      *)
(*     over) and whether the parent drop zone is there;                    *)
(*   - a handler is an operator from the state to its outcome: a status    *)
(*     (what it reported) and the values the state has when it returns or  *)
(*     suspends at an await; Do(outcome) is the step that takes it;        *)
(*   - `pending` holds, first in first out, the handlers suspended at      *)
(*     `await this.saveFileSystem()`: other events run before they resume; *)
(*   - a nullable field is a sequence of length 0 (null) or 1;             *)
(*   - Date.now() is the logical clock `now`: every handler that stamps a  *)
(*     time advances it by one, so the identifier generateId() builds from *)
(*     the time is fresh.  ROOT_ID stands for the identifier 'root'.       *)
(***************************************************************************)
EXTENDS Integers, Sequences, FiniteSets, TLC

VARIABLES currentUser, adminMode, currentPath, selectedItem, clipboard,
          snapshots, fileSystem, heap, now, pending, rendered,
          state

\* the file system simulator's page
fsVars == <<currentUser, adminMode, currentPath, selectedItem, clipboard,
            snapshots, fileSystem, heap, now, pending, rendered>>

vars == <<fsVars, state>>

----------------------------------------------------------------------------
(* Bounds of the model *)

\* the clock stops at the bound of the specification: a step that would take
\* the time past it is not taken (every edit, paste and snapshot stamps a time)
MaxTime == 1
TreeTime == 2
SnapTime == 6
PermTime == 2
NameTime == 2
ModeTime == 2
RootTime == 2
RepairTime == 1
MaxRed == 11
CorruptTime == 2

\* the handlers that may be suspended at an await at one time
MaxPending == 2

\* the folders on the current path (a tree with a cycle has paths of any length)
MaxDepth == 3

(* Program constants *)
ROOT_ID == 0
MAX_SNAPSHOTS == 5
NULL == 0

----------------------------------------------------------------------------
(* JavaScript strings *)

\* s.lastIndexOf(c), 0-based, -1 when absent
LastIndexOf(s, c) ==
    IF \E i \in 1..Len(s) : s[i] = c
    THEN (CHOOSE i \in 1..Len(s) : s[i] = c /\ \A j \in (i+1)..Len(s) : s[j] # c) - 1
    ELSE -1

\* s.substring(from, to), 0-based, to exclusive
Substring(s, from, to) == SubSeq(s, from + 1, to)

\* s.substring(from)
SubstringFrom(s, from) == SubSeq(s, from + 1, Len(s))

StartsWith(s, c) == Len(s) >= 1 /\ s[1] = c

Includes(s, c) == \E i \in 1..Len(s) : s[i] = c

\* s.padEnd(3, '-')
RECURSIVE PadEnd3(_)
PadEnd3(s) == IF Len(s) >= 3 THEN s ELSE PadEnd3(s \o <<"-">>)

\* path.split('/').filter(p => p): the non-empty segments between slashes
RECURSIVE SplitFrom(_, _, _)
SplitFrom(s, i, cur) ==
    IF i > Len(s)
    THEN IF cur = <<>> THEN <<>> ELSE <<cur>>
    ELSE IF s[i] = "/"
         THEN (IF cur = <<>> THEN <<>> ELSE <<cur>>) \o SplitFrom(s, i + 1, <<>>)
         ELSE SplitFrom(s, i + 1, Append(cur, s[i]))

SplitPath(path) == SplitFrom(path, 1, <<>>)

\* path.substring(0, path.lastIndexOf('/')); substring clamps -1 to 0
ParentPathOf(path) ==
    LET i == LastIndexOf(path, "/")
    IN  IF i <= 0 THEN <<>> ELSE Substring(path, 0, i)

\* this.currentPath === '/' ? `/${name}` : `${this.currentPath}/${name}`
JoinPath(cur, name) ==
    IF cur = <<"/">> THEN <<"/">> \o name ELSE cur \o <<"/">> \o name

\* decimal digits of a counter
Digit(n) == CASE n = 0 -> "0" [] n = 1 -> "1" [] n = 2 -> "2" [] n = 3 -> "3"
              [] n = 4 -> "4" [] n = 5 -> "5" [] n = 6 -> "6" [] n = 7 -> "7"
              [] n = 8 -> "8" [] n = 9 -> "9"

RECURSIVE ToDecimal(_)
ToDecimal(n) == IF n < 10 THEN <<Digit(n)>> ELSE ToDecimal(n \div 10) \o <<Digit(n % 10)>>

----------------------------------------------------------------------------
(* Nullable values *)

None == <<>>
Some(x) == <<x>>
IsSome(o) == o # <<>>
Get(o) == o[1]

----------------------------------------------------------------------------
(* Nodes and the object heap *)

\* createNode(name, type, owner, permissions) at time t; generateId() is
\* 'node_' + Date.now() + '_' + random, modelled by the (fresh) time t
generateId(t) == t

createNode(name, type, owner, permissions, t) ==
    [ id          |-> generateId(t),
      name        |-> name,
      type        |-> type,
      owner       |-> owner,
      permissions |-> permissions,
      size        |-> IF type = "folder" THEN 0 ELSE 100,
      createdAt   |-> t,
      modifiedAt  |-> t,
      corrupted   |-> FALSE,
      children    |-> <<>>,
      content     |-> <<>> ]

Perms(o, g, x) == [owner |-> o, group |-> g, others |-> x]
Prwx == <<"r", "w", "x">>
Prw == <<"r", "w", "-">>
Prx == <<"r", "-", "x">>
Pr == <<"r", "-", "-">>
DefaultFilePerms == Perms(Prw, Pr, Pr)
DefaultFolderPerms == Perms(Prwx, Prx, Pr)

\* bytes of one character in UTF-8 (what Blob.size counts)
Utf8Len(code) == IF code < 128 THEN 1 ELSE IF code < 2048 THEN 2 ELSE 3

RECURSIVE calculateSize(_)
calculateSize(content) ==
    IF content = <<>> THEN 0
    ELSE Utf8Len(Head(content)) + calculateSize(Tail(content))

IsFolder(h, a) == h[a].type = "folder"

\* smallest free address
Alloc(h) ==
    CHOOSE a \in 1..(Cardinality(DOMAIN h) + 1) :
        a \notin DOMAIN h /\ \A b \in 1..(a - 1) : b \in DOMAIN h

ChildSet(h, a) == {h[a].children[i] : i \in DOMAIN h[a].children}

RECURSIVE ReachFrom(_, _, _)
ReachFrom(h, frontier, seen) ==
    IF frontier = {} THEN seen
    ELSE LET next == UNION {ChildSet(h, a) : a \in frontier} \ (seen \cup frontier)
         IN  ReachFrom(h, next, seen \cup frontier)

\* the objects reachable from a set of objects, themselves included
Reach(h, roots) == ReachFrom(h, roots \ {NULL}, {})

\* an object that is its own descendant
HasCycle(h, a) ==
    \E r \in Reach(h, {a}) : r \in Reach(h, ChildSet(h, r))

\* updateFolderSize(node): the recursion, with the call stack made explicit.
\* ok = FALSE is the RangeError of a recursion that never returns (the node
\* is on the call stack already); the sizes written before it stay written.
RECURSIVE updateFolderSizeRec(_, _, _)
RECURSIVE SumChildren(_, _, _, _, _)
SumChildren(h, kids, i, total, stack) ==
    IF i > Len(kids) THEN [heap |-> h, size |-> total, ok |-> TRUE]
    ELSE IF IsFolder(h, kids[i])
         THEN LET r == updateFolderSizeRec(h, kids[i], stack)
              IN  IF r.ok THEN SumChildren(r.heap, kids, i + 1, total + r.size, stack)
                  ELSE r
         ELSE SumChildren(h, kids, i + 1, total + h[kids[i]].size, stack)

updateFolderSizeRec(h, a, stack) ==
    IF ~IsFolder(h, a) THEN [heap |-> h, size |-> h[a].size, ok |-> TRUE]
    ELSE IF a \in stack THEN [heap |-> h, size |-> 0, ok |-> FALSE]
    ELSE LET r == SumChildren(h, h[a].children, 1, 0, stack \cup {a})
         IN  IF r.ok
             THEN [heap |-> [r.heap EXCEPT ![a].size = r.size], size |-> r.size, ok |-> TRUE]
             ELSE r

updateFolderSize(h, a) == updateFolderSizeRec(h, a, {})

\* currentNode.children?.find(c => c.name === part): first match, or null
FindChild(h, a, name) ==
    IF ~IsFolder(h, a) THEN NULL
    ELSE LET kids == h[a].children
         IN  IF \E i \in DOMAIN kids : h[kids[i]].name = name
             THEN kids[CHOOSE i \in DOMAIN kids :
                         /\ h[kids[i]].name = name
                         /\ \A j \in 1..(i - 1) : h[kids[j]].name # name]
             ELSE NULL

RECURSIVE WalkPath(_, _, _, _)
WalkPath(h, cur, parts, i) ==
    IF i > Len(parts) THEN cur
    ELSE LET child == FindChild(h, cur, parts[i])
         IN  IF child = NULL THEN NULL ELSE WalkPath(h, child, parts, i + 1)

getNodeByPath(h, root, path) ==
    IF path = <<"/">> THEN root ELSE WalkPath(h, root, SplitPath(path), 1)

\* children.findIndex(child => child.id === id), 1-based, 0 for -1
FindIndexById(h, a, id) ==
    LET kids == h[a].children
    IN  IF \E i \in DOMAIN kids : h[kids[i]].id = id
        THEN CHOOSE i \in DOMAIN kids :
                 /\ h[kids[i]].id = id
                 /\ \A j \in 1..(i - 1) : h[kids[j]].id # id
        ELSE 0

\* children.some(child => child.name === name)
HasChildNamed(h, a, name) ==
    \E i \in DOMAIN h[a].children : h[h[a].children[i]].name = name

\* array.splice(index, 1)
Splice(s, i) == SubSeq(s, 1, i - 1) \o SubSeq(s, i + 1, Len(s))

\* checkPermission without the admin-mode override
checkPermissionNoOverride(admin, user, node, operation) ==
    LET permissionSet ==
            IF user = node.owner THEN node.permissions.owner
            ELSE IF user = "admin" \/ user = "user" THEN node.permissions.group
            ELSE node.permissions.others
    IN  CASE operation = "read"    -> Includes(permissionSet, "r")
          [] operation = "write"   -> Includes(permissionSet, "w")
          [] operation = "execute" -> Includes(permissionSet, "x")
          [] OTHER                 -> FALSE

\* checkPermission with every user but the owner in the 'others' class
checkPermissionNoGroup(admin, user, node, operation) ==
    IF admin THEN TRUE
    ELSE LET permissionSet ==
                 IF user = node.owner THEN node.permissions.owner
                 ELSE node.permissions.others
         IN  CASE operation = "read"    -> Includes(permissionSet, "r")
               [] operation = "write"   -> Includes(permissionSet, "w")
               [] operation = "execute" -> Includes(permissionSet, "x")
               [] OTHER                 -> FALSE

\* checkPermission(node, operation) for a given session
checkPermissionAs(admin, user, node, operation) ==
    IF admin THEN TRUE
    ELSE LET permissionSet ==
                 IF user = node.owner THEN node.permissions.owner
                 ELSE IF user = "admin" \/ user = "user" THEN node.permissions.group
                 ELSE node.permissions.others
         IN  CASE operation = "read"    -> Includes(permissionSet, "r")
               [] operation = "write"   -> Includes(permissionSet, "w")
               [] operation = "execute" -> Includes(permissionSet, "x")
               [] OTHER                 -> FALSE

checkPermission(a, operation) ==
    checkPermissionAs(adminMode, currentUser, heap[a], operation)

\* JSON.stringify(node): the value of the subtree (of an acyclic subtree;
\* a cyclic one makes JSON.stringify throw, see JsonThrows)
RECURSIVE Stringify(_, _)
Stringify(h, a) ==
    [h[a] EXCEPT !.children = [i \in DOMAIN h[a].children |-> Stringify(h, h[a].children[i])]]

JsonThrows(h, a) == HasCycle(h, a)

\* JSON.parse(text): fresh objects for the value, children after their parent
RECURSIVE Parse(_, _)
RECURSIVE ParseList(_, _, _, _)
ParseList(h, vs, i, addrs) ==
    IF i > Len(vs) THEN [heap |-> h, addrs |-> addrs]
    ELSE LET r == Parse(h, vs[i])
         IN  ParseList(r.heap, vs, i + 1, Append(addrs, r.addr))

Parse(h, v) ==
    LET a  == Alloc(h)
        h1 == (a :> [v EXCEPT !.children = <<>>]) @@ h
        r  == ParseList(h1, v.children, 1, <<>>)
    IN  [heap |-> [r.heap EXCEPT ![a].children = r.addrs], addr |-> a]

\* JSON.parse(JSON.stringify(node))
DeepCopy(h, a) == Parse(h, Stringify(h, a))

\* the objects a walk from `todo` meets, in the order it meets them
RECURSIVE WalkOrder(_, _, _)
WalkOrder(h, todo, seen) ==
    IF todo = <<>> THEN seen
    ELSE LET a == Head(todo)
         IN  IF a = NULL \/ (\E i \in DOMAIN seen : seen[i] = a)
             THEN WalkOrder(h, Tail(todo), seen)
             ELSE WalkOrder(h, h[a].children \o Tail(todo), Append(seen, a))

PositionIn(order, a) == CHOOSE i \in DOMAIN order : order[i] = a

----------------------------------------------------------------------------
(* Outcomes of handlers *)

\* the state as it stands: the outcome of a handler that changes nothing
Unchanged(status) ==
    [ status       |-> status,
      render       |-> FALSE,
      heap         |-> heap,
      fileSystem   |-> fileSystem,
      clipboard    |-> clipboard,
      snapshots    |-> snapshots,
      currentUser  |-> currentUser,
      adminMode    |-> adminMode,
      currentPath  |-> currentPath,
      selectedItem |-> selectedItem,
      pending      |-> pending,
      now          |-> now ]

\* the outcome of a handler that edited objects of the heap, stamping now + 1
Edited(h, status) ==
    [Unchanged(status) EXCEPT !.heap = h, !.now = now + 1]

\* the same, for a handler that then suspends at `await this.saveFileSystem()`;
\* the continuation is what it does when the save has completed
Suspended(h, continuation) ==
    [Unchanged("ok") EXCEPT !.heap = h, !.now = now + 1,
                            !.pending = Append(pending, continuation)]

\* a continuation that only redraws the page
JustRender == [kind |-> "render", sourcePath |-> <<>>, destinationPath |-> <<>>]

\* restoreSnapshot() at its await, with the toast, the log and the render ahead
AfterRestore == [kind |-> "restore", sourcePath |-> <<>>, destinationPath |-> <<>>]

\* an outcome whose handler went on to call renderFileExplorer()
Rendered(o) == [o EXCEPT !.render = TRUE]

\* renderFileExplorer(): the items it appends and the parent drop zone
renderFileExplorer(o) ==
    LET currentDir == getNodeByPath(o.heap, o.fileSystem, o.currentPath)
        Readable(a) == checkPermissionAs(o.adminMode, o.currentUser, o.heap[a], "read")
        shown      == SelectSeq(o.heap[currentDir].children, Readable)
    IN  IF currentDir = NULL \/ ~IsFolder(o.heap, currentDir) \/ ~Readable(currentDir)
        THEN [items |-> <<>>, dropZone |-> FALSE]
        ELSE [items    |-> [i \in DOMAIN shown |->
                               [path |-> JoinPath(o.currentPath, o.heap[shown[i]].name),
                                node |-> shown[i]]],
              dropZone |-> o.currentPath # <<"/">> /\ IsSome(o.clipboard)]

\* the roots of an outcome and of a page, live tree first
RootSeq(o, page) ==
    <<o.fileSystem>> \o (IF IsSome(o.clipboard) THEN <<Get(o.clipboard).node>> ELSE <<>>)
                     \o [i \in DOMAIN o.snapshots |-> o.snapshots[i].data]
                     \o [i \in DOMAIN page.items |-> page.items[i].node]

\* the step that takes an outcome: the unreachable objects are dropped and the
\* rest renumbered in walk order
Do(o) ==
    LET page  == IF o.render THEN renderFileExplorer(o) ELSE rendered
        order == WalkOrder(o.heap, RootSeq(o, page), <<>>)
        At(a) == PositionIn(order, a)
        same  == /\ o.heap = heap
                 /\ o.fileSystem = fileSystem
                 /\ o.clipboard = clipboard
                 /\ o.snapshots = snapshots
                 /\ page = rendered
    IN  /\ IF same
           THEN UNCHANGED <<heap, fileSystem, clipboard, snapshots, rendered>>
           ELSE /\ heap' = [i \in DOMAIN order |->
                               [o.heap[order[i]] EXCEPT
                                    !.children = [k \in DOMAIN @ |-> At(@[k])]]]
                /\ fileSystem' = At(o.fileSystem)
                /\ clipboard' = IF IsSome(o.clipboard)
                                THEN Some([Get(o.clipboard) EXCEPT !.node = At(@)])
                                ELSE None
                /\ snapshots' = [i \in DOMAIN o.snapshots |->
                                    [o.snapshots[i] EXCEPT !.data = At(@)]]
                /\ rendered' = [page EXCEPT
                                    !.items = [i \in DOMAIN @ |->
                                                  [@[i] EXCEPT !.node = At(@)]]]
        /\ currentUser' = o.currentUser
        /\ adminMode' = o.adminMode
        /\ currentPath' = o.currentPath
        /\ selectedItem' = o.selectedItem
        /\ pending' = o.pending
        /\ now' = o.now
        /\ UNCHANGED state

getCurrentDirectory == getNodeByPath(heap, fileSystem, currentPath)

\* the path a terminal argument names
ResolveArg(path) ==
    IF StartsWith(path, "/") THEN path ELSE JoinPath(currentPath, path)

RECURSIVE JoinParts(_)
JoinParts(parts) ==
    IF parts = <<>> THEN <<>>
    ELSE IF Len(parts) = 1 THEN parts[1]
    ELSE parts[1] \o <<"/">> \o JoinParts(Tail(parts))

\* the parent of the current path, as the drop zone computes it
ParentOfCurrentPath ==
    IF ParentPathOf(currentPath) = <<>> THEN <<"/">> ELSE ParentPathOf(currentPath)

----------------------------------------------------------------------------
(* Session handlers *)

\* cycleUser()
NextUser(u) == CASE u = "admin" -> "user" [] u = "user" -> "guest" [] u = "guest" -> "admin"

cycleUser ==
    Rendered([Unchanged("ok") EXCEPT !.currentUser = NextUser(currentUser)])

\* the 'change' listener of #admin-mode
SetAdminMode(checked) ==
    Rendered([Unchanged("ok") EXCEPT !.adminMode = checked])

\* the 'click' listener of the rendered item i
SelectItem(i) ==
    [Unchanged("ok") EXCEPT !.selectedItem = Some(rendered.items[i].path)]

\* the 'dblclick' listener of the rendered item i, which closes over its node
OpenItem(i) ==
    LET child == rendered.items[i].node
    IN  IF ~IsFolder(heap, child) THEN Unchanged("none")
        ELSE IF ~checkPermission(child, "execute") THEN Unchanged("PermissionDenied")
        ELSE Rendered([Unchanged("ok") EXCEPT
                          !.currentPath = JoinPath(currentPath, heap[child].name),
                          !.selectedItem = None])

\* the 'click' listener of a breadcrumb.  Every crumb but the root one
\* closes over the one variable `currentPath` of renderBreadcrumbs, which
\* holds the whole path when the loop has ended.
Breadcrumb(toRoot) ==
    Rendered([Unchanged("ok") EXCEPT
                 !.currentPath = IF toRoot THEN <<"/">>
                                 ELSE <<"/">> \o JoinParts(SplitPath(currentPath)),
                 !.selectedItem = None])

----------------------------------------------------------------------------
(* Handlers of the file operations *)

\* currentDir.children.push(node); currentDir.modifiedAt = Date.now();
\* this.updateFolderSize(currentDir)
PushChild(h, dir, node, t) ==
    LET a  == Alloc(h)
        h1 == (a :> node) @@ h
        h2 == [h1 EXCEPT ![dir].children = Append(@, a), ![dir].modifiedAt = t]
    IN  updateFolderSize(h2, dir)

\* createNewFile(), the inputs of the modal given
createNewFile(name, content) ==
    LET currentDir == getCurrentDirectory
        t    == now + 1
        node == createNode(name, "file", currentUser, DefaultFilePerms, t)
        file == IF content # <<>>
                THEN [node EXCEPT !.content = content, !.size = calculateSize(content)]
                ELSE node
        r    == PushChild(heap, currentDir, file, t)
    IN  IF currentDir = NULL \/ ~IsFolder(heap, currentDir) THEN Unchanged("exception")
        ELSE IF HasChildNamed(heap, currentDir, name) THEN Unchanged("NameConflict")
        ELSE IF ~checkPermission(currentDir, "write") THEN Unchanged("PermissionDenied")
        ELSE IF ~r.ok THEN Edited(r.heap, "exception")
        ELSE Suspended(r.heap, JustRender)

\* createNewFolder()
createNewFolder(name) ==
    LET currentDir == getCurrentDirectory
        t      == now + 1
        folder == createNode(name, "folder", currentUser, DefaultFolderPerms, t)
        r      == PushChild(heap, currentDir, folder, t)
    IN  IF currentDir = NULL \/ ~IsFolder(heap, currentDir) THEN Unchanged("exception")
        ELSE IF HasChildNamed(heap, currentDir, name) THEN Unchanged("NameConflict")
        ELSE IF ~checkPermission(currentDir, "write") THEN Unchanged("PermissionDenied")
        ELSE IF ~r.ok THEN Edited(r.heap, "exception")
        ELSE Suspended(r.heap, JustRender)

\* renameSelectedItem()
renameSelectedItem(newName) ==
    LET path   == Get(selectedItem)
        node   == getNodeByPath(heap, fileSystem, path)
        parent == getNodeByPath(heap, fileSystem, ParentPathOf(path))
        t      == now + 1
    IN  IF ~IsSome(selectedItem) THEN Unchanged("none")
        ELSE IF node = NULL \/ parent = NULL THEN Unchanged("NotFound")
        ELSE IF ~checkPermission(node, "write") THEN Unchanged("PermissionDenied")
        ELSE IF ~IsFolder(heap, parent) THEN Unchanged("exception")
        ELSE IF \E i \in DOMAIN heap[parent].children :
                    LET child == heap[heap[parent].children[i]]
                    IN  child.name = newName /\ child.id # heap[node].id
             THEN Unchanged("NameConflict")
        ELSE Suspended([heap EXCEPT ![node].name = newName, ![node].modifiedAt = t],
                       JustRender)

\* [read ? 'r' : '', write ? 'w' : '', execute ? 'x' : ''].join('').padEnd(3, '-')
\* of the three checkboxes of a class
CheckedPerms(boxes) ==
    PadEnd3((IF boxes[1] THEN <<"r">> ELSE <<>>)
                \o (IF boxes[2] THEN <<"w">> ELSE <<>>)
                \o (IF boxes[3] THEN <<"x">> ELSE <<>>))

\* updatePermissions(), the owner and the checkboxes of the modal given
updatePermissions(owner, ownerBoxes, groupBoxes, othersBoxes) ==
    LET node == getNodeByPath(heap, fileSystem, Get(selectedItem))
        t    == now + 1
    IN  IF ~IsSome(selectedItem) THEN Unchanged("none")
        ELSE IF node = NULL THEN Unchanged("NotFound")
        ELSE IF heap[node].owner # currentUser /\ ~adminMode
             THEN Unchanged("PermissionDenied")
        ELSE Suspended([heap EXCEPT
                           ![node].owner = owner,
                           ![node].permissions =
                               Perms(CheckedPerms(ownerBoxes), CheckedPerms(groupBoxes),
                                     CheckedPerms(othersBoxes)),
                           ![node].modifiedAt = t],
                       JustRender)

\* deleteItem(path); `confirmed` is the answer to confirm()
deleteItem(path, confirmed) ==
    LET node   == getNodeByPath(heap, fileSystem, path)
        parent == getNodeByPath(heap, fileSystem, ParentPathOf(path))
        t      == now + 1
        index  == FindIndexById(heap, parent, heap[node].id)
        h1     == [heap EXCEPT ![parent].children = Splice(@, index),
                               ![parent].modifiedAt = t]
        r      == updateFolderSize(h1, parent)
    IN  IF node = NULL THEN Unchanged("NotFound")
        ELSE IF heap[node].id = ROOT_ID THEN Unchanged("RootProtected")
        ELSE IF parent = NULL THEN Unchanged("PermissionDenied")
        ELSE IF ~checkPermission(parent, "write") THEN Unchanged("PermissionDenied")
        ELSE IF ~confirmed THEN Unchanged("none")
        ELSE IF ~IsFolder(heap, parent) THEN Unchanged("exception")
        ELSE IF index = 0 THEN Unchanged("none")
        ELSE IF ~r.ok THEN Edited(r.heap, "exception")
        ELSE Suspended(r.heap, [kind |-> "delete", sourcePath |-> <<>>,
                                destinationPath |-> <<>>])

\* the 'click' listener of #btn-delete
DeleteSelected(confirmed) ==
    IF IsSome(selectedItem) THEN deleteItem(Get(selectedItem), confirmed)
    ELSE Unchanged("none")

\* copyItem(path)
\* copyItem without the read check
copyItemUnchecked(path) ==
    LET node == getNodeByPath(heap, fileSystem, path)
        r    == DeepCopy(heap, node)
    IN  IF node = NULL THEN Unchanged("NotFound")
        ELSE IF JsonThrows(heap, node) THEN Unchanged("exception")
        ELSE [Unchanged("ok") EXCEPT
                 !.heap = r.heap,
                 !.clipboard = Some([action |-> "copy", node |-> r.addr,
                                     sourcePath |-> path])]

copyItem(path) ==
    LET node == getNodeByPath(heap, fileSystem, path)
        r    == DeepCopy(heap, node)
    IN  IF node = NULL THEN Unchanged("NotFound")
        ELSE IF ~checkPermission(node, "read") THEN Unchanged("PermissionDenied")
        ELSE IF JsonThrows(heap, node) THEN Unchanged("exception")
        ELSE [Unchanged("ok") EXCEPT
                 !.heap = r.heap,
                 !.clipboard = Some([action |-> "copy", node |-> r.addr,
                                     sourcePath |-> path])]

\* moveItem(path)
moveItem(path) ==
    LET node   == getNodeByPath(heap, fileSystem, path)
        parent == getNodeByPath(heap, fileSystem, ParentPathOf(path))
    IN  IF node = NULL THEN Unchanged("NotFound")
        ELSE IF parent = NULL THEN Unchanged("PermissionDenied")
        ELSE IF ~checkPermission(parent, "write") THEN Unchanged("PermissionDenied")
        ELSE [Unchanged("ok") EXCEPT
                 !.clipboard = Some([action |-> "move", node |-> node,
                                     sourcePath |-> path])]

\* the 'click' listeners of #btn-copy and #btn-move
CopySelected ==
    IF IsSome(selectedItem) THEN copyItem(Get(selectedItem)) ELSE Unchanged("none")

MoveSelected ==
    IF IsSome(selectedItem) THEN moveItem(Get(selectedItem)) ELSE Unchanged("none")

\* generateUniqueName(destNode, baseName)
RECURSIVE UniqueNameFrom(_, _, _, _, _)
UniqueNameFrom(h, destNode, baseName, name, counter) ==
    IF ~HasChildNamed(h, destNode, name) THEN name
    ELSE LET dotIndex == LastIndexOf(baseName, ".")
             suffix   == <<" ", "(">> \o ToDecimal(counter) \o <<")">>
             next     == IF dotIndex # -1
                         THEN Substring(baseName, 0, dotIndex) \o suffix
                                  \o SubstringFrom(baseName, dotIndex)
                         ELSE baseName \o suffix
         IN  UniqueNameFrom(h, destNode, baseName, next, counter + 1)

\* generateUniqueName putting the counter after the extension
RECURSIVE AppendedNameFrom(_, _, _, _, _)
AppendedNameFrom(h, destNode, baseName, name, counter) ==
    IF ~HasChildNamed(h, destNode, name) THEN name
    ELSE AppendedNameFrom(h, destNode, baseName,
                          baseName \o <<" ", "(">> \o ToDecimal(counter) \o <<")">>,
                          counter + 1)

generateUniqueNameAppends(h, destNode, baseName) ==
    AppendedNameFrom(h, destNode, baseName, baseName, 1)

generateUniqueName(h, destNode, baseName) ==
    UniqueNameFrom(h, destNode, baseName, baseName, 1)

\* pasteItem: the 'copy' branch up to `await this.saveFileSystem()`
PasteCopy(h, destNode, t) ==
    LET r       == DeepCopy(h, Get(clipboard).node)
        newNode == r.addr
        name    == generateUniqueName(r.heap, destNode, r.heap[newNode].name)
        h1      == [r.heap EXCEPT ![newNode].id = generateId(t),
                                  ![newNode].name = name,
                                  ![destNode].children = Append(@, newNode),
                                  ![destNode].modifiedAt = t]
    IN  updateFolderSize(h1, destNode)

\* pasteItem: the 'move' branch up to `await this.saveFileSystem()`
PasteMove(h, destNode, t) ==
    LET node         == Get(clipboard).node
        sourceParent == getNodeByPath(h, fileSystem, ParentPathOf(Get(clipboard).sourcePath))
        index        == IF sourceParent = NULL THEN 0
                        ELSE FindIndexById(h, sourceParent, h[node].id)
        r1           == IF index = 0 THEN [heap |-> h, size |-> 0, ok |-> TRUE]
                        ELSE updateFolderSize(
                                 [h EXCEPT ![sourceParent].children = Splice(@, index),
                                           ![sourceParent].modifiedAt = t],
                                 sourceParent)
        name         == generateUniqueName(r1.heap, destNode, r1.heap[node].name)
        h2           == [r1.heap EXCEPT ![node].name = name,
                                        ![destNode].children = Append(@, node),
                                        ![destNode].modifiedAt = t]
    IN  IF sourceParent # NULL /\ ~IsFolder(h, sourceParent)
        THEN [heap |-> h, size |-> 0, ok |-> FALSE]
        ELSE IF ~r1.ok THEN r1
        ELSE updateFolderSize(h2, destNode)

\* whether the 'move' branch stamps a time before it throws
PasteMoveStamps(h, destNode) ==
    LET sourceParent == getNodeByPath(h, fileSystem, ParentPathOf(Get(clipboard).sourcePath))
    IN  ~(sourceParent # NULL /\ ~IsFolder(h, sourceParent))

\* pasteItem(destinationPath), up to the await; the rest runs as Resume
pasteItem(destinationPath) ==
    LET destNode == getNodeByPath(heap, fileSystem, destinationPath)
        t        == now + 1
        isCopy   == Get(clipboard).action = "copy"
        r        == IF isCopy THEN PasteCopy(heap, destNode, t)
                    ELSE PasteMove(heap, destNode, t)
    IN  IF ~IsSome(clipboard) THEN Unchanged("NoClipboard")
        ELSE IF destNode = NULL THEN Unchanged("NotFound")
        ELSE IF ~IsFolder(heap, destNode) THEN Unchanged("NotAFolder")
        ELSE IF ~checkPermission(destNode, "write") THEN Unchanged("PermissionDenied")
        ELSE IF ~r.ok
             THEN IF isCopy \/ PasteMoveStamps(heap, destNode)
                  THEN Edited(r.heap, "exception")
                  ELSE Unchanged("exception")
        ELSE Suspended(r.heap, [kind |-> Get(clipboard).action,
                                sourcePath |-> Get(clipboard).sourcePath,
                                destinationPath |-> destinationPath])

\* the continuations, that of a pasted copy leaving the clipboard as it is
ResumeOutcomeKeeps(k) ==
    LET rest == [Unchanged("ok") EXCEPT !.pending = Tail(pending)]
    IN  CASE k.kind \in {"render", "restore"} -> Rendered(rest)
          [] k.kind = "delete" ->
               Rendered([rest EXCEPT !.selectedItem = None])
          [] k.kind = "copy" ->
               \* addLog reads this.clipboard.node.name: a TypeError when null
               IF IsSome(clipboard) THEN Rendered(rest)
               ELSE [rest EXCEPT !.status = "exception"]
          [] k.kind = "move" ->
               \* showToast reads this.clipboard.node.name: a TypeError when null
               IF IsSome(clipboard)
               THEN Rendered([rest EXCEPT
                        !.selectedItem =
                            IF selectedItem = Some(k.sourcePath)
                            THEN Some(k.destinationPath \o <<"/">>
                                          \o heap[Get(clipboard).node].name)
                            ELSE selectedItem,
                        !.clipboard = None])
               ELSE [rest EXCEPT !.status = "exception"]

\* what follows `await this.saveFileSystem()` in a suspended handler, run
\* when the save has completed; k is its continuation
ResumeOutcome(k) ==
    LET rest == [Unchanged("ok") EXCEPT !.pending = Tail(pending)]
    IN  CASE k.kind \in {"render", "restore"} -> Rendered(rest)
          [] k.kind = "delete" ->
               Rendered([rest EXCEPT !.selectedItem = None])
          [] k.kind = "copy" ->
               \* addLog reads this.clipboard.node.name: a TypeError when null
               IF IsSome(clipboard) THEN Rendered([rest EXCEPT !.clipboard = None])
               ELSE [rest EXCEPT !.status = "exception"]
          [] k.kind = "move" ->
               \* showToast reads this.clipboard.node.name: a TypeError when null
               IF IsSome(clipboard)
               THEN Rendered([rest EXCEPT
                        !.selectedItem =
                            IF selectedItem = Some(k.sourcePath)
                            THEN Some(k.destinationPath \o <<"/">>
                                          \o heap[Get(clipboard).node].name)
                            ELSE selectedItem,
                        !.clipboard = None])
               ELSE [rest EXCEPT !.status = "exception"]

----------------------------------------------------------------------------
(* Snapshots *)

\* createSnapshot with push() instead of unshift()
createSnapshotPush ==
    LET t        == now + 1
        r        == DeepCopy(heap, fileSystem)
        snapshot == [id |-> t, timestamp |-> t, data |-> r.addr]
        push     == Append(snapshots, snapshot)
        kept     == IF Len(push) > MAX_SNAPSHOTS
                    THEN SubSeq(push, 1, Len(push) - 1)
                    ELSE push
    IN  IF JsonThrows(heap, fileSystem) THEN Unchanged("exception")
        ELSE [Unchanged("ok") EXCEPT !.heap = r.heap, !.snapshots = kept, !.now = t]

\* createSnapshot evicting with shift() instead of pop()
createSnapshotShift ==
    LET t        == now + 1
        r        == DeepCopy(heap, fileSystem)
        snapshot == [id |-> t, timestamp |-> t, data |-> r.addr]
        unshift  == <<snapshot>> \o snapshots
        kept     == IF Len(unshift) > MAX_SNAPSHOTS THEN Tail(unshift) ELSE unshift
    IN  IF JsonThrows(heap, fileSystem) THEN Unchanged("exception")
        ELSE [Unchanged("ok") EXCEPT !.heap = r.heap, !.snapshots = kept, !.now = t]

\* createSnapshot()
createSnapshot ==
    LET t        == now + 1
        r        == DeepCopy(heap, fileSystem)
        snapshot == [id |-> t, timestamp |-> t, data |-> r.addr]
        unshift  == <<snapshot>> \o snapshots
        kept     == IF Len(unshift) > MAX_SNAPSHOTS
                    THEN SubSeq(unshift, 1, Len(unshift) - 1)
                    ELSE unshift
    IN  IF JsonThrows(heap, fileSystem) THEN Unchanged("exception")
        ELSE [Unchanged("ok") EXCEPT !.heap = r.heap, !.snapshots = kept, !.now = t]

\* restoreSnapshot making the snapshot's own objects the live tree
restoreSnapshotByReference(s, confirmed) ==
    IF s.snapshots = <<>> THEN [s EXCEPT !.status = "NoSnapshot"]
    ELSE IF ~confirmed THEN [s EXCEPT !.status = "none"]
    ELSE [s EXCEPT !.status = "ok", !.fileSystem = s.snapshots[1].data,
                   !.pending = Append(@, AfterRestore)]

\* restoreSnapshot taking the oldest snapshot of the history, not its head
restoreSnapshotOldest(s, confirmed) ==
    LET snapshot == s.snapshots[Len(s.snapshots)]
        r        == DeepCopy(s.heap, snapshot.data)
    IN  IF s.snapshots = <<>> THEN [s EXCEPT !.status = "NoSnapshot"]
        ELSE IF ~confirmed THEN [s EXCEPT !.status = "none"]
        ELSE [s EXCEPT !.status = "ok", !.heap = r.heap, !.fileSystem = r.addr,
                       !.pending = Append(@, AfterRestore)]

\* restoreSnapshot() run in the state s; `confirmed` is the answer to
\* confirm()
restoreSnapshotIn(s, confirmed) ==
    LET snapshot == s.snapshots[1]
        r        == DeepCopy(s.heap, snapshot.data)
    IN  IF s.snapshots = <<>> THEN [s EXCEPT !.status = "NoSnapshot"]
        ELSE IF ~confirmed THEN [s EXCEPT !.status = "none"]
        ELSE [s EXCEPT !.status = "ok", !.heap = r.heap, !.fileSystem = r.addr,
                       !.pending = Append(@, AfterRestore)]

\* restoreSnapshot() run in the current state
restoreSnapshot(confirmed) == restoreSnapshotIn(Unchanged("none"), confirmed)

----------------------------------------------------------------------------
(* The contrast checker (projects/AccessibilityContrastChecker/script.js):  *)
(* its `state` object, without the theme; a history item without its ratio, *)
(* which is a function of the two colours                                   *)

HexDigits == <<"0", "1", "2", "3", "4", "5", "6", "7", "8", "9",
               "A", "B", "C", "D", "E", "F">>
LowerHexDigits == <<"0", "1", "2", "3", "4", "5", "6", "7", "8", "9",
                    "a", "b", "c", "d", "e", "f">>

IsHexDigit(c) == \E i \in 1..16 : HexDigits[i] = c \/ LowerHexDigits[i] = c

\* parseInt(c, 16) of one digit
HexValue(c) == (CHOOSE i \in 1..16 : HexDigits[i] = c \/ LowerHexDigits[i] = c) - 1

\* hexToRgb(hex): null (<<>>) unless three or six hexadecimal digits follow
\* the optional '#'
hexToRgb(hex) ==
    LET cleanHex == IF hex # <<>> /\ hex[1] = "#" THEN Tail(hex) ELSE hex
        fullHex  == IF Len(cleanHex) = 3
                    THEN <<cleanHex[1], cleanHex[1], cleanHex[2], cleanHex[2],
                           cleanHex[3], cleanHex[3]>>
                    ELSE cleanHex
    IN  IF ~(Len(cleanHex) \in {3, 6} /\ \A i \in DOMAIN cleanHex : IsHexDigit(cleanHex[i]))
        THEN None
        ELSE Some([r |-> 16 * HexValue(fullHex[1]) + HexValue(fullHex[2]),
                   g |-> 16 * HexValue(fullHex[3]) + HexValue(fullHex[4]),
                   b |-> 16 * HexValue(fullHex[5]) + HexValue(fullHex[6])])

\* rgbToHex(r, g, b), of whole numbers
rgbToHex(r, g, b) ==
    LET toHex(c) ==
            LET clamped == IF c < 0 THEN 0 ELSE IF c > 255 THEN 255 ELSE c
            IN  <<HexDigits[(clamped \div 16) + 1], HexDigits[(clamped % 16) + 1]>>
    IN  <<"#">> \o toHex(r) \o toHex(g) \o toHex(b)

ContrastStart ==
    [foreground |-> [r |-> 0, g |-> 0, b |-> 0],
     background |-> [r |-> 255, g |-> 255, b |-> 255],
     history    |-> <<>>]

\* addToHistory() that keeps the first ten items
addToHistoryKeepsOldest(s) ==
    LET fgHex  == rgbToHex(s.foreground.r, s.foreground.g, s.foreground.b)
        bgHex  == rgbToHex(s.background.r, s.background.g, s.background.b)
        exists == \E i \in DOMAIN s.history :
                      s.history[i].fg = fgHex /\ s.history[i].bg = bgHex
        pushed == Append(s.history, [fg |-> fgHex, bg |-> bgHex])
    IN  IF exists THEN s
        ELSE [s EXCEPT !.history =
                 IF Len(pushed) > 10 THEN SubSeq(pushed, 1, Len(pushed) - 1) ELSE pushed]

\* addToHistory(), run on the state object s
addToHistory(s) ==
    LET fgHex  == rgbToHex(s.foreground.r, s.foreground.g, s.foreground.b)
        bgHex  == rgbToHex(s.background.r, s.background.g, s.background.b)
        exists == \E i \in DOMAIN s.history :
                      s.history[i].fg = fgHex /\ s.history[i].bg = bgHex
        pushed == <<[fg |-> fgHex, bg |-> bgHex]>> \o s.history
    IN  IF exists THEN s
        ELSE [s EXCEPT !.history =
                 IF Len(pushed) > 10 THEN SubSeq(pushed, 1, Len(pushed) - 1) ELSE pushed]

\* handleColorPickerChange(type, e), e.target.value = value
handleColorPickerChange(type, value) ==
    LET rgb == hexToRgb(value)
    IN  IF ~IsSome(rgb) THEN state
        ELSE addToHistory([state EXCEPT ![type] = Get(rgb)])

\* clearHistory()
clearHistory == [state EXCEPT !.history = <<>>]

----------------------------------------------------------------------------
(* Corruption and repair; the values of Math.random() are inputs *)

\* getAllNodes(node): the objects in the order of the walk, an object once
\* for every way to it; ok = FALSE is the RangeError of a walk that never
\* returns (the node is on the call stack already)
RECURSIVE getAllNodesRec(_, _, _)
RECURSIVE AllOfChildren(_, _, _, _, _)
AllOfChildren(h, kids, i, result, stack) ==
    IF i > Len(kids) THEN [nodes |-> result, ok |-> TRUE]
    ELSE LET r == getAllNodesRec(h, kids[i], stack)
         IN  IF r.ok THEN AllOfChildren(h, kids, i + 1, result \o r.nodes, stack)
             ELSE r

getAllNodesRec(h, a, stack) ==
    IF a \in stack THEN [nodes |-> <<>>, ok |-> FALSE]
    ELSE AllOfChildren(h, h[a].children, 1, <<a>>, stack \cup {a})

getAllNodes(h, a) == getAllNodesRec(h, a, {})

\* allNodes.filter(node => node.type === 'file' && !node.corrupted)
UncorruptedFiles(h, root) ==
    LET IsCandidate(a) == h[a].type = "file" /\ ~h[a].corrupted
    IN  SelectSeq(getAllNodes(h, root).nodes, IsCandidate)

\* the numbers of characters Math.floor(length * corruptionLevel) can give
\* for a corruptionLevel in [0.2, 0.5)
CorruptionCounts(length) ==
    IF length = 0 THEN {0} ELSE (length \div 5)..((length - 1) \div 2)

\* contentArray[pos] = String.fromCharCode(code), one edit after the other
RECURSIVE Overwrite(_, _)
Overwrite(content, edits) ==
    IF edits = <<>> THEN content
    ELSE Overwrite([content EXCEPT ![Head(edits).pos] = Head(edits).code], Tail(edits))

\* the loop of corruptRandomItems: picks[i] is the i-th randomIndex (from 1),
\* edits[i] the positions and codes drawn for the i-th file
RECURSIVE CorruptLoop(_, _, _, _, _)
CorruptLoop(h, fileNodes, picks, edits, i) ==
    IF i > Len(picks) THEN h
    ELSE LET node == fileNodes[picks[i]]
             h1   == [h EXCEPT ![node].corrupted = TRUE,
                               ![node].content = Overwrite(@, edits[i])]
         IN  CorruptLoop(h1, Splice(fileNodes, picks[i]), picks, edits, i + 1)

\* the draws fit the loop: as many picks as numToCorrupt, each an index of
\* what is left of fileNodes, and for each file a number of edits that
\* corruptionLevel allows, at positions of its content
RECURSIVE DrawsFit(_, _, _, _, _)
DrawsFit(h, fileNodes, picks, edits, i) ==
    IF i > Len(picks) THEN TRUE
    ELSE /\ picks[i] \in DOMAIN fileNodes
         /\ LET content == h[fileNodes[picks[i]]].content
            IN  /\ Len(edits[i]) \in CorruptionCounts(Len(content))
                /\ \A j \in DOMAIN edits[i] : edits[i][j].pos \in DOMAIN content
         /\ DrawsFit([h EXCEPT ![fileNodes[picks[i]]].content = Overwrite(@, edits[i])],
                     Splice(fileNodes, picks[i]), picks, edits, i + 1)

\* Math.min(Math.floor(Math.random() * 3) + 1, fileNodes.length)
NumToCorrupt(count, fileNodes) ==
    IF count < Len(fileNodes) THEN count ELSE Len(fileNodes)

\* corruptRandomItems(), for the draws `count` (1..3), `picks` and `edits`
corruptRandomItems(count, picks, edits) ==
    LET all       == getAllNodes(heap, fileSystem)
        fileNodes == UncorruptedFiles(heap, fileSystem)
    IN  IF ~all.ok THEN Unchanged("exception")
        ELSE IF fileNodes = <<>> THEN Unchanged("NoUncorrupted")
        ELSE [Unchanged("ok") EXCEPT
                 !.heap = CorruptLoop(heap, fileNodes, picks, edits, 1),
                 !.pending = Append(pending, JustRender)]

\* the draws corruptRandomItems can make in the current state
CorruptDrawsFit(count, picks, edits) ==
    LET all       == getAllNodes(heap, fileSystem)
        fileNodes == UncorruptedFiles(heap, fileSystem)
    IN  IF ~all.ok \/ fileNodes = <<>> THEN picks = <<>> /\ edits = <<>> /\ count = 1
        ELSE /\ Len(picks) = NumToCorrupt(count, fileNodes)
             /\ Len(edits) = Len(picks)
             /\ DrawsFit(heap, fileNodes, picks, edits, 1)

\* findParent(root, nodeId, parent): the parent of the first object of the
\* walk that has the identifier, or null
RECURSIVE findParent(_, _, _, _)
RECURSIVE FindParentIn(_, _, _, _, _)
FindParentIn(h, kids, i, nodeId, root) ==
    IF i > Len(kids) THEN NULL
    ELSE LET result == findParent(h, kids[i], nodeId, root)
         IN  IF result # NULL THEN result
             ELSE FindParentIn(h, kids, i + 1, nodeId, root)

findParent(h, root, nodeId, parent) ==
    IF h[root].id = nodeId THEN parent
    ELSE FindParentIn(h, h[root].children, 1, nodeId, root)

\* content.replace(/[^\x20-\x7E\n\r\t]/g, '\u2588')
Printable(code) == (32 <= code /\ code <= 126) \/ code \in {9, 10, 13}
Glyph == 9608
ReplaceUnprintable(content) ==
    [i \in DOMAIN content |-> IF Printable(content[i]) THEN content[i] ELSE Glyph]

\* the loop of startRepair over corruptedNodes; choices[i] is
\* Math.random() < 0.7 for the i-th of them
RECURSIVE RepairLoop(_, _, _, _, _, _)
RepairLoop(h, corruptedNodes, choices, i, repairedCount, removedCount) ==
    IF i > Len(corruptedNodes)
    THEN [heap |-> h, repairedCount |-> repairedCount, removedCount |-> removedCount]
    ELSE LET node   == corruptedNodes[i]
             parent == findParent(h, fileSystem, h[node].id, NULL)
             index  == IF parent = NULL THEN 0 ELSE FindIndexById(h, parent, h[node].id)
         IN  IF choices[i] /\ h[node].type = "file"
             THEN RepairLoop([h EXCEPT ![node].corrupted = FALSE,
                                       ![node].content = ReplaceUnprintable(@)],
                             corruptedNodes, choices, i + 1, repairedCount + 1, removedCount)
             ELSE IF index # 0
             THEN RepairLoop([h EXCEPT ![parent].children = Splice(@, index)],
                             corruptedNodes, choices, i + 1, repairedCount, removedCount + 1)
             ELSE RepairLoop(h, corruptedNodes, choices, i + 1, repairedCount, removedCount)

\* allNodes.filter(node => node.corrupted)
CorruptedNodes(h, root) ==
    LET IsCorrupted(a) == h[a].corrupted
    IN  SelectSeq(getAllNodes(h, root).nodes, IsCorrupted)

\* the callback of startRepair()'s timer, up to its await, for the draws
\* `choices`
startRepair(choices) ==
    LET all            == getAllNodes(heap, fileSystem)
        corruptedNodes == CorruptedNodes(heap, fileSystem)
        r              == RepairLoop(heap, corruptedNodes, choices, 1, 0, 0)
        sized          == updateFolderSize(r.heap, fileSystem)
    IN  IF ~all.ok THEN Unchanged("exception")
        ELSE IF corruptedNodes = <<>> THEN Unchanged("NoCorruption")
        ELSE [Unchanged("ok") EXCEPT !.heap = sized.heap,
                                     !.pending = Append(pending, JustRender)]

\* the counts the repair results show
RepairReport(choices) ==
    LET r == RepairLoop(heap, CorruptedNodes(heap, fileSystem), choices, 1, 0, 0)
    IN  [repaired |-> r.repairedCount, removed |-> r.removedCount]

\* the draws startRepair can make in the current state
RepairDrawsFit(choices) ==
    LET all == getAllNodes(heap, fileSystem)
    IN  IF ~all.ok THEN choices = <<>>
        ELSE Len(choices) = Len(CorruptedNodes(heap, fileSystem))

----------------------------------------------------------------------------
(* Terminal commands; `path` and `mode` are the tokens of the command line *)

\* terminalCD without the execute check
terminalCDUnchecked(path) ==
    LET parts   == SplitPath(currentPath)
        newPath == IF path = <<"/">> THEN <<"/">>
                   ELSE IF path = <<".", ".">>
                        THEN IF currentPath = <<"/">> THEN <<"/">>
                             ELSE <<"/">> \o JoinParts(SubSeq(parts, 1, Len(parts) - 1))
                   ELSE IF StartsWith(path, "/") THEN path
                   ELSE JoinPath(currentPath, path)
        node    == getNodeByPath(heap, fileSystem, newPath)
    IN  IF path = <<>> THEN Unchanged("Usage")
        ELSE IF node = NULL THEN Unchanged("NotFound")
        ELSE IF ~IsFolder(heap, node) THEN Unchanged("NotAFolder")
        ELSE Rendered([Unchanged("ok") EXCEPT !.currentPath = newPath])

\* terminalCD(path)
terminalCD(path) ==
    LET parts   == SplitPath(currentPath)
        newPath == IF path = <<"/">> THEN <<"/">>
                   ELSE IF path = <<".", ".">>
                        THEN IF currentPath = <<"/">> THEN <<"/">>
                             ELSE <<"/">> \o JoinParts(SubSeq(parts, 1, Len(parts) - 1))
                   ELSE IF StartsWith(path, "/") THEN path
                   ELSE JoinPath(currentPath, path)
        node    == getNodeByPath(heap, fileSystem, newPath)
    IN  IF path = <<>> THEN Unchanged("Usage")
        ELSE IF node = NULL THEN Unchanged("NotFound")
        ELSE IF ~IsFolder(heap, node) THEN Unchanged("NotAFolder")
        ELSE IF ~checkPermission(node, "execute") THEN Unchanged("PermissionDenied")
        ELSE Rendered([Unchanged("ok") EXCEPT !.currentPath = newPath])

\* terminalLS(): what it reports and the children it lists, in order
terminalLS ==
    LET currentDir == getCurrentDirectory
        Readable(a) == checkPermission(a, "read")
    IN  IF currentDir = NULL THEN [status |-> "NotFound", listed |-> <<>>]
        ELSE IF ~checkPermission(currentDir, "read")
             THEN [status |-> "PermissionDenied", listed |-> <<>>]
        ELSE [status |-> "ok", listed |-> SelectSeq(heap[currentDir].children, Readable)]

\* terminalCAT(path): what it reports and the content it prints
terminalCAT(path) ==
    LET filePath == ResolveArg(path)
        node     == getNodeByPath(heap, fileSystem, filePath)
    IN  IF path = <<>> THEN [status |-> "Usage", content |-> <<>>]
        ELSE IF node = NULL THEN [status |-> "NotFound", content |-> <<>>]
        ELSE IF heap[node].type # "file" THEN [status |-> "IsADirectory", content |-> <<>>]
        ELSE IF ~checkPermission(node, "read")
             THEN [status |-> "PermissionDenied", content |-> <<>>]
        ELSE IF heap[node].corrupted
             THEN [status |-> "Corrupted", content |-> heap[node].content]
        ELSE [status |-> "ok", content |-> heap[node].content]

\* terminalMKDIR(path)
terminalMKDIR(path) ==
    LET currentDir == getCurrentDirectory
        t      == now + 1
        folder == createNode(path, "folder", currentUser, DefaultFolderPerms, t)
        r      == PushChild(heap, currentDir, folder, t)
    IN  IF path = <<>> THEN Unchanged("Usage")
        ELSE IF currentDir = NULL THEN Unchanged("exception")
        ELSE IF ~checkPermission(currentDir, "write") THEN Unchanged("PermissionDenied")
        ELSE IF ~IsFolder(heap, currentDir) THEN Unchanged("exception")
        ELSE IF HasChildNamed(heap, currentDir, path) THEN Unchanged("NameConflict")
        ELSE IF ~r.ok THEN Edited(r.heap, "exception")
        ELSE Rendered(Edited(r.heap, "ok"))

\* terminalTOUCH without the look for an existing child
terminalTOUCHCreates(path) ==
    LET currentDir   == getCurrentDirectory
        t            == now + 1
        file         == createNode(path, "file", currentUser, DefaultFilePerms, t)
        r            == PushChild(heap, currentDir, file, t)
    IN  IF path = <<>> THEN Unchanged("Usage")
        ELSE IF currentDir = NULL THEN Unchanged("exception")
        ELSE IF ~checkPermission(currentDir, "write") THEN Unchanged("PermissionDenied")
        ELSE IF ~IsFolder(heap, currentDir) THEN Unchanged("exception")
        ELSE IF ~r.ok THEN Edited(r.heap, "exception")
        ELSE Rendered(Edited(r.heap, "ok"))

\* terminalTOUCH(path)
terminalTOUCH(path) ==
    LET currentDir   == getCurrentDirectory
        t            == now + 1
        existingFile == FindChild(heap, currentDir, path)
        file         == createNode(path, "file", currentUser, DefaultFilePerms, t)
        r            == PushChild(heap, currentDir, file, t)
    IN  IF path = <<>> THEN Unchanged("Usage")
        ELSE IF currentDir = NULL THEN Unchanged("exception")
        ELSE IF ~checkPermission(currentDir, "write") THEN Unchanged("PermissionDenied")
        ELSE IF ~IsFolder(heap, currentDir) THEN Unchanged("exception")
        ELSE IF existingFile # NULL
             THEN Edited([heap EXCEPT ![existingFile].modifiedAt = t], "ok")
        ELSE IF ~r.ok THEN Edited(r.heap, "exception")
        ELSE Rendered(Edited(r.heap, "ok"))

\* terminalRM(path)
terminalRM(path) ==
    LET filePath == ResolveArg(path)
        node     == getNodeByPath(heap, fileSystem, filePath)
        parent   == getNodeByPath(heap, fileSystem, ParentPathOf(filePath))
        t        == now + 1
        index    == FindIndexById(heap, parent, heap[node].id)
        h1       == [heap EXCEPT ![parent].children = Splice(@, index),
                                 ![parent].modifiedAt = t]
        r        == updateFolderSize(h1, parent)
    IN  IF path = <<>> THEN Unchanged("Usage")
        ELSE IF node = NULL THEN Unchanged("NotFound")
        ELSE IF parent = NULL THEN Unchanged("PermissionDenied")
        ELSE IF ~checkPermission(parent, "write") THEN Unchanged("PermissionDenied")
        ELSE IF ~IsFolder(heap, parent) THEN Unchanged("exception")
        ELSE IF index = 0 THEN Unchanged("CannotRemove")
        ELSE IF ~r.ok THEN Edited(r.heap, "exception")
        ELSE Rendered(Edited(r.heap, "ok"))

\* parseInt(digit, 8) of one octal digit
OctalValue(digit) ==
    CASE digit = "0" -> 0 [] digit = "1" -> 1 [] digit = "2" -> 2 [] digit = "3" -> 3
      [] digit = "4" -> 4 [] digit = "5" -> 5 [] digit = "6" -> 6 [] digit = "7" -> 7

\* parseModeDigit testing bit 1 for 'w' and bit 2 for 'x'
parseModeDigitSwapped(digit) ==
    LET num == OctalValue(digit)
    IN  << IF (num \div 4) % 2 = 1 THEN "r" ELSE "-",
           IF num % 2 = 1 THEN "w" ELSE "-",
           IF (num \div 2) % 2 = 1 THEN "x" ELSE "-" >>

\* parseModeDigit(digit)
parseModeDigit(digit) ==
    LET num == OctalValue(digit)
    IN  << IF (num \div 4) % 2 = 1 THEN "r" ELSE "-",
           IF (num \div 2) % 2 = 1 THEN "w" ELSE "-",
           IF num % 2 = 1 THEN "x" ELSE "-" >>

\* /^[0-7]{3}$/.test(mode)
IsOctalMode(mode) ==
    /\ Len(mode) = 3
    /\ \A i \in 1..3 : mode[i] \in {"0", "1", "2", "3", "4", "5", "6", "7"}

\* terminalCHMOD with the ownership test made after the assignment
terminalCHMODAssignsFirst(mode, path) ==
    LET filePath == ResolveArg(path)
        node     == getNodeByPath(heap, fileSystem, filePath)
        t        == now + 1
        perms    == Perms(parseModeDigit(mode[1]), parseModeDigit(mode[2]),
                          parseModeDigit(mode[3]))
        h1       == [heap EXCEPT ![node].permissions = perms, ![node].modifiedAt = t]
    IN  IF mode = <<>> \/ path = <<>> THEN Unchanged("Usage")
        ELSE IF node = NULL THEN Unchanged("NotFound")
        ELSE IF ~IsOctalMode(mode) THEN Unchanged("InvalidMode")
        ELSE IF heap[node].owner # currentUser /\ ~adminMode
             THEN Rendered(Edited(h1, "PermissionDenied"))
        ELSE Rendered(Edited(h1, "ok"))

\* terminalCHMOD(mode, path)
terminalCHMOD(mode, path) ==
    LET filePath == ResolveArg(path)
        node     == getNodeByPath(heap, fileSystem, filePath)
        t        == now + 1
        perms    == Perms(parseModeDigit(mode[1]), parseModeDigit(mode[2]),
                          parseModeDigit(mode[3]))
    IN  IF mode = <<>> \/ path = <<>> THEN Unchanged("Usage")
        ELSE IF node = NULL THEN Unchanged("NotFound")
        ELSE IF heap[node].owner # currentUser /\ ~adminMode THEN Unchanged("PermissionDenied")
        ELSE IF ~IsOctalMode(mode) THEN Unchanged("InvalidMode")
        ELSE Rendered(Edited([heap EXCEPT ![node].permissions = perms,
                                          ![node].modifiedAt = t], "ok"))

----------------------------------------------------------------------------
(* The session a page load starts *)

NameA == <<"a">>
NameC == <<"c">>
NameX == <<"x">>
ContentHi == <<104, 105>>

\* A tree an earlier session saved and loadFileSystem() loads:
\*   /            admin  rwx rwx r--   (after `chmod 775 /`)
\*   /a           admin  rwx r-x r--
\*   /a/x  "hi"   admin  rw- r-- r--
\* Its times (and the identifiers built from them) lie before the session.
SeedHeap ==
    << [id |-> ROOT_ID, name |-> <<"/">>, type |-> "folder", owner |-> "admin",
        permissions |-> Perms(Prwx, Prwx, Pr), size |-> 2, createdAt |-> -4,
        modifiedAt |-> -1, corrupted |-> FALSE, children |-> <<2>>,
        content |-> <<>>],
       [createNode(NameA, "folder", "admin", DefaultFolderPerms, -3)
            EXCEPT !.children = <<3>>, !.size = 2, !.modifiedAt = -2],
       [createNode(NameX, "file", "admin", DefaultFilePerms, -2)
            EXCEPT !.content = ContentHi, !.size = 2] >>

\* Another saved tree, with a folder inside a folder:
\*   /      admin  rwx rwx r--
\*   /a     admin  rwx r-x r--
\*   /a/f   admin  rwx r-x r--
NameF == <<"f">>
SeedNested ==
    << [SeedHeap[1] EXCEPT !.size = 0],
       [SeedHeap[2] EXCEPT !.size = 0],
       createNode(NameF, "folder", "admin", DefaultFolderPerms, -2) >>

Start(seed) ==
    /\ state = ContrastStart
    /\ currentUser = "admin"
    /\ adminMode = FALSE
    /\ currentPath = <<"/">>
    /\ selectedItem = None
    /\ clipboard = None
    /\ snapshots = <<>>
    /\ fileSystem = 1
    /\ heap = seed
    /\ now = 0
    /\ pending = <<>>
    /\ rendered = [items    |-> [i \in DOMAIN seed[1].children |->
                                    [path |-> <<"/">> \o seed[seed[1].children[i]].name,
                                     node |-> seed[1].children[i]]],
                   dropZone |-> FALSE]

Init == Start(SeedHeap)
InitNested == Start(SeedNested)

NameInputs == {NameA, NameC}
ContentInputs == {<<>>, ContentHi}
PathInputs == {<<"/">>, <<".", ".">>, NameA, NameX, <<"/", "a">>}
TargetInputs == {<<"/">>, NameX, <<"/", "a">>}
ModeInputs == {<<"7", "7", "7">>, <<"7", "5">>}

\* a step stays within the bound on the clock and on the suspended handlers
Within(bound) == now' <= bound /\ Len(pending') <= MaxPending

\* a step leaves the current path within the bound on its length
Shallow == Len(SplitPath(currentPath')) <= MaxDepth

\* the listeners of the rendered page that only navigate
Navigate ==
    \/ \E i \in DOMAIN rendered.items : Do(SelectItem(i))
    \/ \E i \in DOMAIN rendered.items : Do(OpenItem(i)) /\ Shallow
    \/ \E toRoot \in BOOLEAN :
           /\ toRoot \/ SplitPath(currentPath) # <<>>
           /\ Do(Breadcrumb(toRoot))

\* the folders of the page a drag can be dropped on (the 'drop' listener of
\* initDragAndDrop) and the parent drop zone
DropTargets ==
    IF ~IsSome(clipboard) THEN {}
    ELSE {rendered.items[i].path :
              i \in {j \in DOMAIN rendered.items : IsFolder(heap, rendered.items[j].node)}}
         \cup (IF rendered.dropZone THEN {ParentOfCurrentPath} ELSE {})

\* the buttons, prompts and drop zones of the file explorer
Explorer(bound, names, contents) ==
    \/ \E name \in names, content \in contents :
           Do(createNewFile(name, content)) /\ Within(bound)
    \/ \E name \in names : Do(createNewFolder(name)) /\ Within(bound)
    \/ \E name \in names : Do(renameSelectedItem(name)) /\ Within(bound)
    \/ \E confirmed \in BOOLEAN : Do(DeleteSelected(confirmed)) /\ Within(bound)
    \/ Do(CopySelected)
    \/ Do(MoveSelected)
    \/ \E d \in DropTargets : Do(pasteItem(d)) /\ Within(bound)
    \/ pending # <<>> /\ Do(ResumeOutcome(Head(pending)))

\* the snapshot buttons
Snapshots(bound) ==
    \/ Do(createSnapshot) /\ Within(bound)
    \/ \E confirmed \in BOOLEAN : Do(restoreSnapshot(confirmed)) /\ Within(bound)

\* the command line
Terminal(bound) ==
    \/ \E path \in PathInputs : Do(terminalCD(path)) /\ Shallow
    \/ \E path \in NameInputs : Do(terminalMKDIR(path)) /\ Within(bound)
    \/ \E path \in NameInputs : Do(terminalTOUCH(path)) /\ Within(bound)
    \/ \E path \in TargetInputs : Do(terminalRM(path)) /\ Within(bound)
    \/ \E mode \in ModeInputs, path \in TargetInputs :
           Do(terminalCHMOD(mode, path)) /\ Within(bound)

\* every handler, any user
Next ==
    \/ Do(cycleUser)
    \/ Do(SetAdminMode(~adminMode))
    \/ Navigate
    \/ Explorer(MaxTime, NameInputs, ContentInputs)
    \/ Snapshots(MaxTime)
    \/ Terminal(MaxTime)

Spec == Init /\ [][Next]_vars

\* renames, moves and snapshots in the hands of one user, for longer, on the
\* tree with a folder inside a folder
NextTree ==
    \/ Navigate
    \/ Do(renameSelectedItem(NameC)) /\ Within(TreeTime)
    \/ Do(MoveSelected)
    \/ \E d \in DropTargets : Do(pasteItem(d)) /\ Within(TreeTime)
    \/ pending # <<>> /\ Do(ResumeOutcome(Head(pending)))
    \/ Snapshots(TreeTime)

SpecTree == InitNested /\ [][NextTree]_vars

\* snapshots of a tree that `touch` changes in between
NextSnap ==
    \/ Snapshots(SnapTime)
    \/ \E path \in NameInputs : Do(terminalTOUCH(path)) /\ Within(SnapTime)

SpecSnap == Init /\ [][NextSnap]_vars

\* owners and permission triples of every kind, under every user
PermModeInputs ==
    {<<"0", "0", "7">>, <<"0", "7", "0">>, <<"7", "0", "0">>,
     <<"1", "2", "4">>, <<"6", "5", "3">>, <<"7", "5">>}
PermPathInputs == {<<"/">>, <<"/", "a">>, NameC}

NextPerm ==
    \/ Do(cycleUser)
    \/ Do(SetAdminMode(~adminMode))
    \/ \E path \in NameInputs : Do(terminalMKDIR(path)) /\ Within(PermTime)
    \/ \E mode \in PermModeInputs, path \in PermPathInputs :
           Do(terminalCHMOD(mode, path)) /\ Within(PermTime)

SpecPerm == Init /\ [][NextPerm]_vars

\* chmod and the permissions dialog, by the owner and by others
ChmodModeInputs ==
    {<<"7", "5", "0">>, <<"1", "2", "4">>, <<"6", "5", "3">>, <<"7", "5">>,
     <<"7", "5", "8">>, <<"0", "7", "5", "0">>}
BoxInputs == {<<TRUE, FALSE, TRUE>>, <<FALSE, FALSE, FALSE>>}

NextMode ==
    \/ Do(cycleUser)
    \/ Do(SetAdminMode(~adminMode))
    \/ \E i \in DOMAIN rendered.items : Do(SelectItem(i))
    \/ \E mode \in ChmodModeInputs, path \in TargetInputs :
           Do(terminalCHMOD(mode, path)) /\ Within(ModeTime)
    \/ \E owner \in {"admin", "guest"}, o \in BoxInputs, g \in BoxInputs, x \in BoxInputs :
           Do(updatePermissions(owner, o, g, x)) /\ Within(ModeTime)
    \/ pending # <<>> /\ Do(ResumeOutcome(Head(pending)))

SpecMode == Init /\ [][NextMode]_vars

\* the same, with the Copy and Move buttons
NextClip ==
    \/ NextMode
    \/ Do(CopySelected)
    \/ Do(MoveSelected)

SpecClip == Init /\ [][NextClip]_vars

\* names with a slash in them, which no handler refuses
NameSlash == <<"/">>

NextRoot ==
    \/ \E i \in DOMAIN rendered.items : Do(SelectItem(i))
    \/ \E name \in {NameSlash, NameC} : Do(terminalMKDIR(name)) /\ Within(RootTime)
    \/ \E name \in {NameSlash, NameC} : Do(renameSelectedItem(name)) /\ Within(RootTime)
    \/ \E confirmed \in BOOLEAN : Do(DeleteSelected(confirmed)) /\ Within(RootTime)
    \/ \E path \in {<<"/">>, NameA} : Do(terminalRM(path)) /\ Within(RootTime)
    \/ Do(MoveSelected)
    \/ \E d \in DropTargets : Do(pasteItem(d)) /\ Within(RootTime)
    \/ pending # <<>> /\ Do(ResumeOutcome(Head(pending)))
    \/ Snapshots(RootTime)

SpecRoot == Init /\ [][NextRoot]_vars

\* A saved tree whose file is long enough for corruption to change a
\* character:
\*   /      admin  rwx rwx r--
\*   /a     admin  rwx r-x r--
\*   /a/x   admin  rw- r-- r--   'hey'
ContentHey == <<104, 101, 121>>
SeedFiles ==
    << [SeedHeap[1] EXCEPT !.size = 3],
       [SeedHeap[2] EXCEPT !.size = 3],
       [SeedHeap[3] EXCEPT !.content = ContentHey, !.size = 3] >>

InitFiles == Start(SeedFiles)

\* the values the draws of corruptRandomItems and startRepair are taken from:
\* no character changed, or one that takes two bytes written first
EditInputs == {<<>>, <<[pos |-> 1, code |-> 233]>>}

\* the draws to try in the current state: sequences of the length the loop
\* will consume
PickInputs(count) ==
    LET all       == getAllNodes(heap, fileSystem)
        fileNodes == IF all.ok THEN UncorruptedFiles(heap, fileSystem) ELSE <<>>
    IN  [1..NumToCorrupt(count, fileNodes) -> DOMAIN fileNodes]
ChoiceInputs ==
    LET all == getAllNodes(heap, fileSystem)
    IN  [1..(IF all.ok THEN Len(CorruptedNodes(heap, fileSystem)) ELSE 0) -> BOOLEAN]

\* the Corrupt button: corruptRandomItems() with its draws
Corrupt ==
    \E count \in 1..3 : \E picks \in PickInputs(count) :
    \E edits \in [DOMAIN picks -> EditInputs] :
        /\ CorruptDrawsFit(count, picks, edits)
        /\ Do(corruptRandomItems(count, picks, edits))
        /\ Len(pending') <= MaxPending

\* moves pasted and files corrupted
NextCorrupt ==
    \/ Navigate
    \/ Do(MoveSelected)
    \/ \E d \in DropTargets : Do(pasteItem(d)) /\ Within(CorruptTime)
    \/ pending # <<>> /\ Do(ResumeOutcome(Head(pending)))
    \/ Corrupt

SpecCorrupt == InitFiles /\ [][NextCorrupt]_vars

\* copies pasted, files corrupted and repaired
NextRepair ==
    \/ \E i \in DOMAIN rendered.items : Do(SelectItem(i))
    \/ Do(CopySelected)
    \/ \E d \in DropTargets : Do(pasteItem(d)) /\ Within(RepairTime)
    \/ pending # <<>> /\ Do(ResumeOutcome(Head(pending)))
    \/ Corrupt
    \/ \E choices \in ChoiceInputs :
           /\ RepairDrawsFit(choices)
           /\ Do(startRepair(choices))
           /\ Len(pending') <= MaxPending

SpecRepair == InitFiles /\ [][NextRepair]_vars

\* the values typed or picked in the contrast checker: the foreground's red
\* one step up, black, and a text that is no colour ('#0g0')
RedUp ==
    LET r == state.foreground.r + 1
    IN  <<"#">> \o <<LowerHexDigits[(r \div 16) + 1], LowerHexDigits[(r % 16) + 1]>>
              \o <<"0", "0", "0", "0">>
ColourInputs ==
    (IF state.foreground.r < MaxRed THEN {RedUp} ELSE {})
        \cup {<<"#", "0", "0", "0">>, <<"#", "0", "g", "0">>}

\* the contrast checker's listeners: the colour picker's input, a colour
\* field's blur, the Clear History button
NextContrast ==
    /\ UNCHANGED fsVars
    /\ \/ \E value \in ColourInputs : state' = handleColorPickerChange("foreground", value)
       \/ state' = addToHistory(state)
       \/ state' = clearHistory

SpecContrast == Init /\ [][NextContrast]_vars

\* the (foreground hex, background hex) pairs of a history
HistoryPairs(history) == {<<history[i].fg, history[i].bg>> : i \in DOMAIN history}

\* C30: the contrast checker's history, empty at the start, never holds more
\* than 10 entries nor two entries with the same (foreground hex,
\* background hex) pair; addToHistory of a pair already present changes
\* nothing; addToHistory of a new pair puts it first and keeps the earlier
\* entries in their order behind it, less the last (the oldest) one when
\* there were already 10; clearHistory empties the history.
ContrastHistoryBounded ==
    LET history == state.history
    IN  /\ Len(history) <= 10
        /\ \A i, j \in DOMAIN history :
               (history[i].fg = history[j].fg /\ history[i].bg = history[j].bg) => i = j
        /\ \A red \in 0..MaxRed :
               LET s     == [state EXCEPT !.foreground = [r |-> red, g |-> 0, b |-> 0]]
                   pair  == <<rgbToHex(red, 0, 0),
                              rgbToHex(s.background.r, s.background.g, s.background.b)>>
                   after == addToHistory(s)
                   kept  == IF Len(history) >= 10 THEN 9 ELSE Len(history)
               IN  /\ after.foreground = s.foreground
                   /\ after.background = s.background
                   /\ IF pair \in HistoryPairs(history)
                      THEN after.history = history
                      ELSE after.history =
                               <<[fg |-> pair[1], bg |-> pair[2]]>> \o SubSeq(history, 1, kept)
        /\ clearHistory.history = <<>>

\* ten entries, the eleventh pair first, and the first pair added (black on
\* white) dropped
EleventhPairDroppedOldest ==
    /\ Len(state.history) = 10
    /\ state.history[1].fg = <<"#", "0", "A", "0", "0", "0", "0">>
    /\ state.history[10].fg = <<"#", "0", "1", "0", "0", "0", "0">>
    /\ <<rgbToHex(0, 0, 0), rgbToHex(255, 255, 255)>> \notin HistoryPairs(state.history)

\* A saved tree whose names have extensions and counters:
\*   /              admin  rwx rwx r--
\*   /x.t   "hi"    admin  rw- r-- r--
\*   /d             admin  rwx r-x r--
\*   /d/x (1).t     admin  rw- r-- r--
NameXT == <<"x", ".", "t">>
NameX1T == <<"x", " ", "(", "1", ")", ".", "t">>
NameD == <<"d">>
SeedNames ==
    << [SeedHeap[1] EXCEPT !.size = 2, !.children = <<2, 3>>],
       [SeedHeap[3] EXCEPT !.name = NameXT],
       [createNode(NameD, "folder", "admin", DefaultFolderPerms, -3)
            EXCEPT !.children = <<4>>, !.size = 0],
       [createNode(NameX1T, "file", "admin", DefaultFilePerms, -2)
            EXCEPT !.size = 0] >>

InitNames == Start(SeedNames)

\* copies and moves pasted next to nodes of the same name
NextNames ==
    \/ Navigate
    \/ Do(CopySelected)
    \/ Do(MoveSelected)
    \/ \E d \in DropTargets : Do(pasteItem(d)) /\ Within(NameTime)
    \/ pending # <<>> /\ Do(ResumeOutcome(Head(pending)))

SpecNames == InitNames /\ [][NextNames]_vars

----------------------------------------------------------------------------
(* What a user can attempt in the current state *)

\* the outcomes of the handlers that edit the children of a folder
ChildListAttempts ==
    {createNewFile(name, content) : name \in NameInputs, content \in ContentInputs}
        \cup {createNewFolder(name) : name \in NameInputs}
        \cup {DeleteSelected(confirmed) : confirmed \in BOOLEAN}
        \cup {pasteItem(d) : d \in DropTargets}
        \cup {terminalMKDIR(path) : path \in NameInputs}
        \cup {terminalTOUCH(path) : path \in NameInputs}
        \cup {terminalRM(path) : path \in TargetInputs}

\* the outcomes of every handler that edits the tree
Attempts ==
    ChildListAttempts
        \cup {renameSelectedItem(name) : name \in NameInputs}
        \cup {CopySelected, MoveSelected}
        \cup {restoreSnapshot(confirmed) : confirmed \in BOOLEAN}
        \cup {terminalCHMOD(mode, path) : mode \in ModeInputs, path \in TargetInputs}

\* the failures a handler reports
Failures ==
    {"PermissionDenied", "NameConflict", "NotFound", "NotAFolder",
     "RootProtected", "InvalidMode", "NoClipboard", "NoSnapshot"}

\* the folders of the live tree
Folders == {a \in Reach(heap, {fileSystem}) : IsFolder(heap, a)}

RECURSIVE SumOfSizes(_, _)
SumOfSizes(h, kids) ==
    IF kids = <<>> THEN 0 ELSE h[Head(kids)].size + SumOfSizes(h, Tail(kids))

----------------------------------------------------------------------------
(* Properties *)

\* C1: every folder reachable from the root, the root and the ancestors of
\* an edited folder included, has a size equal to the sum of the sizes of
\* its direct children.
FolderSizesAddUp ==
    \A a \in Folders : heap[a].size = SumOfSizes(heap, heap[a].children)

\* C2: no two children of a folder of the tree have the same name.
SiblingNamesUnique ==
    \A a \in Folders :
        \A i, j \in DOMAIN heap[a].children :
            i # j => heap[heap[a].children[i]].name # heap[heap[a].children[j]].name

\* C3: deleting '/' fails as root-protected and leaves the tree as it was,
\* for every user and admin mode, through the delete button's handler and
\* through `rm /` alike.
RootDeleteIsRootProtected ==
    \A o \in {deleteItem(<<"/">>, confirmed) : confirmed \in BOOLEAN}
                 \cup {terminalRM(<<"/">>)} :
        /\ o.status = "RootProtected"
        /\ o.heap = heap
        /\ o.fileSystem = fileSystem

\* a failure reported in a state that an edit has already changed, with
\* failures of four kinds on offer
FailuresOnOffer ==
    /\ now > 0
    /\ Cardinality({o.status : o \in Attempts} \cap Failures) >= 4

\* C4: an operation that ends in one of the failures leaves every object,
\* and so the tree, as it was before the operation.
FailureLeavesTree ==
    \A o \in Attempts :
        o.status \in Failures => o.heap = heap /\ o.fileSystem = fileSystem

\* the operations a caller can name, one of them unknown to checkPermission
OperationInputs == {"read", "write", "execute", "delete"}

\* admin mode on, and a node whose triples grant the current user nothing
AdminModeOverrides ==
    /\ adminMode
    /\ \E a \in DOMAIN heap :
           \A op \in OperationInputs :
               ~checkPermissionAs(FALSE, currentUser, heap[a], op)

\* C5: with admin mode on, checkPermission is true of every node and every
\* operation, whoever the current user and whatever the owner and triples.
AdminModePermitsAll ==
    adminMode => \A a \in DOMAIN heap : \A op \in OperationInputs :
                     checkPermission(a, op)

\* the class of the current user for a node and the letter of an operation
ClassOf(user, node) ==
    IF user = node.owner THEN "owner"
    ELSE IF user \in {"admin", "user"} THEN "group"
    ELSE "others"

LetterOf(operation) ==
    CASE operation = "read" -> "r" [] operation = "write" -> "w"
      [] operation = "execute" -> "x"

\* 'guest' owns one node, of which 'user' is in the group, and is among the
\* others of a node whose triples differ (admin mode off)
EveryClassSelected ==
    /\ ~adminMode
    /\ currentUser = "guest"
    /\ \E a, b \in DOMAIN heap :
           /\ ClassOf(currentUser, heap[a]) = "owner"
           /\ ClassOf("user", heap[a]) = "group"
           /\ ClassOf(currentUser, heap[b]) = "others"
           /\ heap[b].permissions.others # heap[b].permissions.owner
           /\ heap[a].permissions.owner # heap[a].permissions.group

\* C6: with admin mode off, checkPermission selects the owner triple for the
\* owner, the group triple for a non-owner 'admin' or 'user' and the others
\* triple for anyone else, and is true exactly when that triple holds the
\* letter of the operation.
TripleSelectedByClass ==
    ~adminMode =>
        \A a \in DOMAIN heap : \A op \in {"read", "write", "execute"} :
            checkPermission(a, op) <=>
                \E i \in 1..3 :
                    heap[a].permissions[ClassOf(currentUser, heap[a])][i] = LetterOf(op)

\* C7: with admin mode off, the current user holds write permission on every
\* folder whose child list an operation changes, the source parent of a
\* paste-move included.
ChildListChangeNeedsWrite ==
    ~adminMode =>
        \A o \in ChildListAttempts : \A a \in DOMAIN heap :
            o.heap[a].children # heap[a].children => checkPermission(a, "write")

\* a step that puts a new snapshot at the head of the history
SnapshotTaken ==
    /\ snapshots' # <<>>
    /\ snapshots = <<>> \/ snapshots'[1].id # snapshots[1].id

\* the identifiers of the history, head first
SnapshotIds(history) == [i \in DOMAIN history |-> history[i].id]

\* of a tree that JSON can encode, the snapshot that is created and at once
\* restored (the restore confirmed) gives a deep-equal live tree
SnapshotRoundTrip ==
    LET created  == createSnapshot
        restored == restoreSnapshotIn(created, TRUE)
    IN  created.status = "ok" =>
            /\ restored.status = "ok"
            /\ Stringify(restored.heap, restored.fileSystem) = Stringify(heap, fileSystem)

\* C8: of every reachable tree, a snapshot is created and its restore at
\* once (the restore confirmed) gives a live tree deep-equal to the tree
\* before the snapshot.
SnapshotRoundTripOfEveryTree ==
    LET created  == createSnapshot
        restored == restoreSnapshotIn(created, TRUE)
    IN  /\ created.status = "ok"
        /\ restored.status = "ok"
        /\ Stringify(restored.heap, restored.fileSystem) = Stringify(heap, fileSystem)

\* a snapshot that was restored and whose restored tree was then edited
\* through a clipboard of before the restore: the restore and, after it, the
\* paste of the object that was cut are at their awaits
SnapshotOutlivesEdit ==
    /\ snapshots # <<>>
    /\ now > snapshots[1].timestamp
    /\ Len(pending) = 2
    /\ pending[1].kind = "restore"
    /\ pending[2].kind = "move"
    /\ IsSome(clipboard)
    /\ Get(clipboard).node \in Reach(heap, {fileSystem})
    /\ ~HasCycle(heap, fileSystem)
    /\ Stringify(heap, fileSystem) # Stringify(heap, snapshots[1].data)

\* C9: the tree of a stored snapshot is the tree at the time of capture and
\* no later step changes it, whatever edits the live tree.
SnapshotsImmutable ==
    [][/\ SnapshotTaken =>
              Stringify(heap', snapshots'[1].data) = Stringify(heap, fileSystem)
       /\ \A i \in DOMAIN snapshots : \A j \in DOMAIN snapshots' :
              snapshots[i].id = snapshots'[j].id =>
                  Stringify(heap', snapshots'[j].data) = Stringify(heap, snapshots[i].data)
      ]_vars

\* five snapshots, the oldest of them the second of six: no object of the
\* tree was stamped, so the first stamp was a snapshot too
OldestEvicted ==
    /\ Len(snapshots) = MAX_SNAPSHOTS
    /\ snapshots[MAX_SNAPSHOTS].id = 2
    /\ \A a \in Reach(heap, {fileSystem}) : heap[a].modifiedAt < 0

\* C10: the history never holds more than 5 snapshots, the most recent
\* first; a create puts the new snapshot at the head, and of six snapshots
\* the one evicted is the oldest, at the tail.
HistoryCappedAndOrdered ==
    /\ Len(snapshots) <= 5
    /\ \A i, j \in DOMAIN snapshots : i < j => snapshots[i].id > snapshots[j].id
    /\ LET created == createSnapshot
           all     == <<now + 1>> \o SnapshotIds(snapshots)
       IN  created.status = "ok" =>
               SnapshotIds(created.snapshots) =
                   IF Len(all) > 5 THEN SubSeq(all, 1, 5) ELSE all

\* two snapshots of different trees in the history, the live tree being
\* a third
HeadDiffersFromOlder ==
    /\ Len(snapshots) >= 2
    /\ Stringify(heap, snapshots[1].data) # Stringify(heap, snapshots[2].data)
    /\ Stringify(heap, fileSystem) # Stringify(heap, snapshots[1].data)
    /\ Stringify(heap, fileSystem) # Stringify(heap, snapshots[2].data)

\* C11: with an empty history a restore reports that there is no snapshot
\* and leaves the live tree as it was; with a history, a confirmed restore
\* makes the live tree a deep copy of the head snapshot: equal in value to
\* it, and sharing no object with it or with the tree of before.
RestoreTakesHead ==
    LET o == restoreSnapshot(TRUE)
    IN  IF snapshots = <<>>
        THEN \A confirmed \in BOOLEAN :
                 /\ restoreSnapshot(confirmed).status = "NoSnapshot"
                 /\ restoreSnapshot(confirmed).heap = heap
                 /\ restoreSnapshot(confirmed).fileSystem = fileSystem
        ELSE /\ o.status = "ok"
             /\ Stringify(o.heap, o.fileSystem) = Stringify(heap, snapshots[1].data)
             /\ Reach(o.heap, {o.fileSystem}) \cap DOMAIN heap = {}
             /\ \A a \in DOMAIN heap : o.heap[a] = heap[a]

\* the successful pastes of a copy that the page offers
PasteCopyAttempts ==
    IF IsSome(clipboard) /\ Get(clipboard).action = "copy"
    THEN {o \in {pasteItem(d) : d \in DropTargets} : o.status = "ok"}
    ELSE {}

\* the objects of the subtree at the path the clipboard was copied from
SourceSubtree ==
    Reach(heap, {getNodeByPath(heap, fileSystem, Get(clipboard).sourcePath)})

\* the objects a paste of a copy has added to the live tree
Pasted(o) == Reach(o.heap, {o.fileSystem}) \ DOMAIN heap

\* a paste of a copy inserts fresh objects only: the copy shares no object
\* with the source, so an edit of the one is no edit of the other
PasteCopyIsFresh ==
    \A o \in PasteCopyAttempts :
        /\ Pasted(o) # {}
        /\ Reach(o.heap, Pasted(o)) \cap DOMAIN heap = {}

\* C12: a paste of a copy leaves every field of every object of the source
\* subtree as it was, and the copy it inserts shares no object with the
\* source.
PasteCopyLeavesSource ==
    \A o \in PasteCopyAttempts :
        /\ \A a \in SourceSubtree : o.heap[a] = heap[a]
        /\ Reach(o.heap, Pasted(o)) \cap DOMAIN heap = {}

\* a name with ' (k)' put before its last extension, or after the name
\* when it has none
Numbered(baseName, k) ==
    LET suffix == <<" ", "(">> \o ToDecimal(k) \o <<")">>
        dots   == {i \in DOMAIN baseName : baseName[i] = "."}
        last   == CHOOSE i \in dots : \A j \in dots : j <= i
    IN  IF dots = {} THEN baseName \o suffix
        ELSE SubSeq(baseName, 1, last - 1) \o suffix
                 \o SubSeq(baseName, last, Len(baseName))

\* the names of the children of a folder
NamesIn(h, a) == {h[h[a].children[i]].name : i \in DOMAIN h[a].children}

\* the name the rule gives a node called baseName next to nodes of the given
\* names: the name itself when it is free, else the numbered name of the
\* least free k >= 1
DisambiguatedName(names, baseName) ==
    LET free == {k \in 1..(Cardinality(names) + 1) : Numbered(baseName, k) \notin names}
        k    == CHOOSE n \in free : \A m \in free : n <= m
    IN  IF baseName \notin names THEN baseName ELSE Numbered(baseName, k)

\* a folder in which a second paste of 'x.t' had to take the counter 2
SecondCounterTaken ==
    \E a \in Folders :
        {NameXT, NameX1T, Numbered(NameXT, 2)} \subseteq NamesIn(heap, a)

\* C13: a node pasted into a folder that has its name is named with ' (k)'
\* before the last extension of the name (after the name when it has no
\* extension), k the least integer >= 1 that gives a name not in the
\* folder; a name that is free is kept.  The folder is the destination as
\* the node joins it: the children the paste leaves in it before the node.
PastedNameDisambiguated ==
    /\ \A a \in Folders : \A b \in DOMAIN heap :
           generateUniqueName(heap, a, heap[b].name)
               = DisambiguatedName(NamesIn(heap, a), heap[b].name)
    /\ \A d \in DropTargets :
           LET o      == pasteItem(d)
               dest   == getNodeByPath(heap, fileSystem, d)
               kids   == o.heap[dest].children
               before == {heap[kids[i]].name : i \in 1..(Len(kids) - 1)}
           IN  o.status = "ok" =>
                   o.heap[kids[Len(kids)]].name
                       = DisambiguatedName(before, heap[Get(clipboard).node].name)

\* the triple of an octal digit: 'r' with bit 4, 'w' with bit 2, 'x' with
\* bit 1
TripleOfDigit(digit) ==
    LET d == CHOOSE n \in 0..7 : Digit(n) = digit
    IN  << IF d \in {4, 5, 6, 7} THEN "r" ELSE "-",
           IF d \in {2, 3, 6, 7} THEN "w" ELSE "-",
           IF d \in {1, 3, 5, 7} THEN "x" ELSE "-" >>

OctalDigits == {Digit(n) : n \in 0..7}

\* every mode of three octal digits, and modes that are not
AllModes ==
    {<<a, b, c>> : a \in OctalDigits, b \in OctalDigits, c \in OctalDigits}
        \cup {<<"7", "5">>, <<"7", "5", "8">>, <<"0", "7", "5", "0">>, <<"r", "w", "x">>}

\* a node that `chmod 750` has changed, and that the current user neither
\* owns nor has admin mode for
Chmod750Done ==
    /\ ~adminMode
    /\ \E a \in Reach(heap, {fileSystem}) :
           /\ heap[a].permissions = Perms(<<"r", "w", "x">>, <<"r", "-", "x">>,
                                         <<"-", "-", "-">>)
           /\ heap[a].modifiedAt > 0
           /\ heap[a].owner # currentUser

\* C14: chmod succeeds only for the owner of the node or with admin mode
\* on; a success with a mode of three octal digits gives each class the
\* triple of its digit; a mode that is not three octal digits is rejected as
\* invalid, and anyone else is refused, the permissions staying as they
\* were.  The permissions dialog succeeds for the same users only.
ChmodByOwnerSetsTriples ==
    /\ \A mode \in AllModes, path \in TargetInputs :
           LET o      == terminalCHMOD(mode, path)
               node   == getNodeByPath(heap, fileSystem, ResolveArg(path))
               may    == heap[node].owner = currentUser \/ adminMode
               octal  == Len(mode) = 3 /\ \A i \in 1..3 : mode[i] \in OctalDigits
           IN  node # NULL =>
                   /\ ~may => o.status = "PermissionDenied" /\ o.heap = heap
                   /\ may /\ ~octal => o.status = "InvalidMode" /\ o.heap = heap
                   /\ may /\ octal =>
                          /\ o.status = "ok"
                          /\ o.heap[node].permissions =
                                 Perms(TripleOfDigit(mode[1]), TripleOfDigit(mode[2]),
                                       TripleOfDigit(mode[3]))
                          /\ \A a \in DOMAIN heap \ {node} : o.heap[a] = heap[a]
    /\ \A owner \in {"admin", "guest"}, b \in BoxInputs :
           LET o    == updatePermissions(owner, b, b, b)
               node == getNodeByPath(heap, fileSystem, Get(selectedItem))
           IN  IsSome(selectedItem) /\ node # NULL =>
                   IF heap[node].owner = currentUser \/ adminMode
                   THEN o.status = "ok"
                   ELSE o.status = "PermissionDenied" /\ o.heap = heap

\* C15: the live tree has one root folder, whose identifier is 'root' and
\* whose name is '/', whatever is renamed, deleted, pasted or restored.
RootKeepsIdentity ==
    /\ IsFolder(heap, fileSystem)
    /\ heap[fileSystem].id = ROOT_ID
    /\ heap[fileSystem].name = <<"/">>
    /\ \A a \in Reach(heap, {fileSystem}) \ {fileSystem} : heap[a].id # ROOT_ID

\* the tokens `cd` is given, the missing argument included
CdInputs == PathInputs \cup {<<>>}

\* the outcomes of `cd` in the current state
CdAttempts == {terminalCD(path) : path \in CdInputs}

\* the current user may enter the node
MayEnter(a) ==
    \/ adminMode
    \/ \E i \in 1..3 :
           heap[a].permissions[ClassOf(currentUser, heap[a])][i] = "x"

\* below the root, one `cd` enters a folder and others are refused for each
\* of the four reasons
CdRefusedAndAccepted ==
    /\ currentPath # <<"/">>
    /\ \E o \in CdAttempts : o.status = "ok" /\ o.currentPath # currentPath
    /\ {"Usage", "NotFound", "NotAFolder", "PermissionDenied"}
           \subseteq {o.status : o \in CdAttempts}

\* C16: `cd` ends either with the current path on an existing folder the
\* current user may enter (execute permission, or admin mode), or with an
\* error and the current path, like everything else, as it was; `cd ..` at
\* '/' stays at '/'.
CdFailsClosed ==
    /\ \A o \in CdAttempts :
           LET node == getNodeByPath(heap, fileSystem, o.currentPath)
           IN  \/ /\ o.status = "ok"
                  /\ node # NULL
                  /\ IsFolder(heap, node)
                  /\ MayEnter(node)
               \/ /\ o.status \in {"Usage", "NotFound", "NotAFolder", "PermissionDenied"}
                  /\ o = Unchanged(o.status)
    /\ currentPath = <<"/">> =>
           LET o == terminalCD(<<".", ".">>)
           IN  o.currentPath = <<"/">> /\ (o.status = "ok" <=> MayEnter(fileSystem))

\* a file of the live tree that `touch` created and a later `touch` stamped
TouchedAfterCreated ==
    \E a \in Reach(heap, {fileSystem}) :
        /\ heap[a].type = "file"
        /\ heap[a].createdAt > 0
        /\ heap[a].modifiedAt > heap[a].createdAt

\* C17: with write permission on the working directory, `touch` of the name
\* of a child changes that child's modified time and nothing else (no child
\* list, name, content or size); `touch` of a new name appends to the working
\* directory one new file without content, owned by the current user, with
\* permissions rw-/r--/r--, and adds nothing else.
TouchCreatesOrTouches ==
    \A path \in NameInputs :
        LET dir == getCurrentDirectory
            o   == terminalTOUCH(path)
            new == DOMAIN o.heap \ DOMAIN heap
        IN  (dir # NULL /\ IsFolder(heap, dir) /\ checkPermission(dir, "write")) =>
                IF \E i \in DOMAIN heap[dir].children :
                       heap[heap[dir].children[i]].name = path
                THEN /\ o.status = "ok"
                     /\ \E i \in DOMAIN heap[dir].children :
                            LET c == heap[dir].children[i]
                            IN  /\ heap[c].name = path
                                /\ o.heap[c].modifiedAt > heap[c].modifiedAt
                                /\ o.heap = [heap EXCEPT ![c].modifiedAt = o.heap[c].modifiedAt]
                     /\ [o EXCEPT !.heap = heap, !.now = now] = Unchanged("ok")
                ELSE /\ Cardinality(new) = 1
                     /\ \A n \in new :
                            /\ o.heap[dir].children = Append(heap[dir].children, n)
                            /\ o.heap[n].type = "file"
                            /\ o.heap[n].name = path
                            /\ o.heap[n].content = <<>>
                            /\ o.heap[n].owner = currentUser
                            /\ o.heap[n].permissions =
                                   [owner |-> <<"r", "w", "-">>, group |-> <<"r", "-", "-">>,
                                    others |-> <<"r", "-", "-">>]
                     /\ \A a \in DOMAIN heap \ {dir} :
                            /\ o.heap[a].children = heap[a].children
                            /\ o.heap[a].name = heap[a].name
                            /\ o.heap[a].content = heap[a].content

\* the paths the explorer can hand to copyItem, moveItem and pasteItem: those
\* of the items of the page, the selected one, and the parent drop zone
PagePaths ==
    {rendered.items[i].path : i \in DOMAIN rendered.items}
        \cup (IF IsSome(selectedItem) THEN {Get(selectedItem)} ELSE {})
        \cup {ParentOfCurrentPath}

\* a pasted copy is in the tree, its paste has completed, the clipboard holds
\* a move issued since, and a copy of the selected item would replace it
ClipboardReusedAfterPaste ==
    /\ pending = <<>>
    /\ IsSome(clipboard) /\ Get(clipboard).action = "move"
    /\ \E a \in Reach(heap, {fileSystem}) : heap[a].id > 0 /\ heap[a].createdAt < 0
    /\ CopySelected.status = "ok"
    /\ Get(CopySelected.clipboard).sourcePath # Get(clipboard).sourcePath

\* C18: the clipboard holds at most one operation; a copy or a move that is
\* not refused replaces what it held; a refused paste (destination missing,
\* not a folder, not write-permitted) leaves it, and everything else, as it
\* was, and so does a paste with an empty clipboard; a paste that succeeds
\* clears it when the paste completes.
ClipboardLastWriterWins ==
    /\ Len(clipboard) <= 1
    /\ \A path \in PagePaths :
           LET c == copyItem(path)
               m == moveItem(path)
           IN  /\ c.status = "ok" =>
                      /\ Len(c.clipboard) = 1
                      /\ Get(c.clipboard).action = "copy"
                      /\ Get(c.clipboard).sourcePath = path
                      /\ Get(c.clipboard).node \notin DOMAIN heap
               /\ m.status = "ok" =>
                      m.clipboard = Some([action |-> "move", sourcePath |-> path,
                                          node |-> getNodeByPath(heap, fileSystem, path)])
    /\ \A d \in PagePaths :
           LET o == pasteItem(d)
           IN  /\ ~IsSome(clipboard) => o = Unchanged("NoClipboard")
               /\ o.status \in {"NotFound", "NotAFolder", "PermissionDenied"} =>
                      o = Unchanged(o.status)
               /\ o.status = "ok" =>
                      /\ o.clipboard = clipboard
                      /\ Len(o.pending) = Len(pending) + 1
                      /\ o.pending[Len(o.pending)].kind = Get(clipboard).action
    /\ (pending # <<>> /\ Head(pending).kind \in {"copy", "move"}) =>
           ResumeOutcome(Head(pending)).clipboard = None

\* the children of an object, as a set
Kids(a) == {heap[a].children[i] : i \in DOMAIN heap[a].children}

\* C19: the objects reachable from the root form a tree: no folder is below
\* itself, no object is a child of two folders, and none is twice in one
\* child list.
NodeStructureIsTree ==
    /\ \A a \in Folders : a \notin Reach(heap, Kids(a))
    /\ \A a, b \in Folders : a # b => Kids(a) \cap Kids(b) = {}
    /\ \A a \in Folders :
           \A i, j \in DOMAIN heap[a].children :
               i # j => heap[a].children[i] # heap[a].children[j]

\* the folders of the live tree that hold the object as a child
ParentsOf(n) == {a \in Folders : n \in Kids(a)}

\* C20: a paste-move that succeeds, of a node N that is in the tree, into
\* the folder D leaves N a child of D and of no other folder, leaves the set
\* of objects reachable from the root as it was, and changes nothing but the
\* name of N and the children, size and modified time of D and of the folder
\* N was in.
PasteMoveFrame ==
    \A d \in DropTargets :
        LET o == pasteItem(d)
            N == Get(clipboard).node
            D == getNodeByPath(heap, fileSystem, d)
            P == ParentsOf(N)
        IN  (Get(clipboard).action = "move" /\ o.status = "ok" /\ P # {}) =>
                /\ \E i \in DOMAIN o.heap[D].children : o.heap[D].children[i] = N
                /\ \A a \in P \ {D} :
                       \A i \in DOMAIN o.heap[a].children : o.heap[a].children[i] # N
                /\ Reach(o.heap, {o.fileSystem}) = Reach(heap, {fileSystem})
                /\ \A a \in DOMAIN heap :
                       IF a \in P \cup {D}
                       THEN [o.heap[a] EXCEPT !.children = heap[a].children,
                                              !.size = heap[a].size,
                                              !.modifiedAt = heap[a].modifiedAt,
                                              !.name = heap[a].name] = heap[a]
                            /\ (a # N => o.heap[a].name = heap[a].name)
                       ELSE IF a = N
                       THEN [o.heap[a] EXCEPT !.name = heap[a].name] = heap[a]
                       ELSE o.heap[a] = heap[a]

\* the current user is granted the letter on the object (admin mode grants all)
Granted(a, letter) ==
    \/ adminMode
    \/ \E i \in 1..3 :
           heap[a].permissions[ClassOf(currentUser, heap[a])][i] = letter

RECURSIVE PickedFiles(_, _, _)
PickedFiles(fileNodes, picks, i) ==
    IF i > Len(picks) THEN <<>>
    ELSE <<fileNodes[picks[i]]>> \o PickedFiles(Splice(fileNodes, picks[i]), picks, i + 1)

\* the objects of the live tree that are files without the corrupted flag
UncorruptedFileSet ==
    {a \in Reach(heap, {fileSystem}) : heap[a].type = "file" /\ ~heap[a].corrupted}

\* C22: with u >= 1 uncorrupted files in the tree, corruptRandomItems flags
\* k of them, 1 <= k <= min(3, u), all files that were not flagged, and
\* picks no file twice; a flagged file keeps size, owner, name and
\* permissions, and no object is added, removed or otherwise changed; with
\* u = 0 it reports that and changes nothing.
CorruptFlagsDistinctFiles ==
    \A count \in 1..3 : \A picks \in PickInputs(count) :
    \A edits \in [DOMAIN picks -> EditInputs] :
        (CorruptDrawsFit(count, picks, edits) /\ getAllNodes(heap, fileSystem).ok) =>
            LET o       == corruptRandomItems(count, picks, edits)
                u       == Cardinality(UncorruptedFileSet)
                flagged == {a \in DOMAIN heap : o.heap[a].corrupted /\ ~heap[a].corrupted}
                picked  == PickedFiles(UncorruptedFiles(heap, fileSystem), picks, 1)
            IN  IF u = 0 THEN o = Unchanged("NoUncorrupted")
                ELSE /\ o.status = "ok"
                     /\ flagged \subseteq UncorruptedFileSet
                     /\ 1 <= Cardinality(flagged)
                     /\ Cardinality(flagged) <= (IF u < 3 THEN u ELSE 3)
                     /\ \A i, j \in DOMAIN picked : i # j => picked[i] # picked[j]
                     /\ Len(picked) = Cardinality(flagged)
                     /\ DOMAIN o.heap = DOMAIN heap
                     /\ \A a \in DOMAIN heap :
                            IF a \in flagged
                            THEN [o.heap[a] EXCEPT !.corrupted = FALSE,
                                                   !.content = heap[a].content] = heap[a]
                            ELSE o.heap[a] = heap[a]

\* C23: after a repair run no object reachable from the root is flagged as
\* corrupted: an object that was flagged when the scan started has been
\* cleared and is still in the tree, or is no longer in the tree; and the
\* repaired and removed counts add up to the number of flagged nodes found.
RepairLeavesNoCorruption ==
    \A choices \in ChoiceInputs :
        LET o      == startRepair(choices)
            found  == CorruptedNodes(heap, fileSystem)
            report == RepairReport(choices)
            after  == Reach(o.heap, {o.fileSystem})
        IN  o.status = "ok" =>
                /\ \A a \in after : ~o.heap[a].corrupted
                /\ \A i \in DOMAIN found : found[i] \in after => ~o.heap[found[i]].corrupted
                /\ report.repaired + report.removed = Len(found)

\* C25: the objects reachable from the root have pairwise distinct
\* identifiers.
IdentifiersDistinct ==
    \A a, b \in Reach(heap, {fileSystem}) : a # b => heap[a].id # heap[b].id

\* C26: a repair run removes no object that was not flagged as corrupted
\* when the scan started: every such object of the tree is in the tree
\* afterwards, a child of the same folders.
RepairRemovesOnlyCorrupted ==
    \A choices \in ChoiceInputs :
        LET o == startRepair(choices)
        IN  o.status = "ok" =>
                \A p \in Folders : \A n \in Kids(p) :
                    ~heap[n].corrupted =>
                        \E i \in DOMAIN o.heap[p].children : o.heap[p].children[i] = n

\* C24: the size field of every file of the tree is the number of bytes of
\* its content.
FileSizeIsContentLength ==
    \A a \in Reach(heap, {fileSystem}) :
        heap[a].type = "file" => heap[a].size = calculateSize(heap[a].content)

\* C27: the current path resolves to a folder of the live tree.
CurrentPathResolves ==
    /\ getCurrentDirectory # NULL
    /\ IsFolder(heap, getCurrentDirectory)

\* the clipboard entry is the move that the suspended paste k has pasted: it
\* names the same source, and its node is in the destination of k already
PastedBy(k) ==
    LET dest == getNodeByPath(heap, fileSystem, k.destinationPath)
    IN  /\ k.kind = "move"
        /\ IsSome(clipboard)
        /\ Get(clipboard).action = "move"
        /\ Get(clipboard).sourcePath = k.sourcePath
        /\ dest # NULL
        /\ Get(clipboard).node \in Kids(dest)

\* the clipboard entry is not the one the suspended paste k has pasted: it
\* is of another kind or names another source
IssuedSince(k) ==
    /\ k.kind \in {"copy", "move"}
    /\ IsSome(clipboard)
    /\ Get(clipboard).action # k.kind \/ Get(clipboard).sourcePath # k.sourcePath

\* C28: while a paste is suspended at its await, a drop does not insert the
\* clipboard node that paste has inserted a second time, and a copy or move
\* issued since is still on the clipboard when the paste has resumed.
PastedAtMostOnce ==
    /\ \A i \in DOMAIN pending :
           PastedBy(pending[i]) =>
               \A d \in DropTargets : pasteItem(d).status # "ok"
    /\ (pending # <<>> /\ IssuedSince(Head(pending))) =>
           ResumeOutcome(Head(pending)).clipboard = clipboard

\* the arguments `cat` is given
CatInputs == {<<>>, NameA, NameX, <<"/", "a">>, <<"/", "a", "/", "x">>}

\* the folders on the way to the node a path names: the root and the node
\* of every proper prefix of the path
FoldersOnPath(path) ==
    LET parts == SplitPath(path)
    IN  {getNodeByPath(heap, fileSystem, <<"/">> \o JoinParts(SubSeq(parts, 1, n))) :
             n \in 0..(Len(parts) - 1)}

\* C29: with admin mode off, `cat` prints the content of a file only if the
\* current user may read the file and may enter (execute) every folder on
\* the path to it, and `ls` lists a child only if the user may read the
\* working directory and the child.
TerminalDisclosesOnlyReadable ==
    ~adminMode =>
        /\ \A path \in CatInputs :
               LET r    == terminalCAT(path)
                   node == getNodeByPath(heap, fileSystem, ResolveArg(path))
               IN  r.status \in {"ok", "Corrupted"} =>
                       /\ Granted(node, "r")
                       /\ \A f \in FoldersOnPath(ResolveArg(path)) : Granted(f, "x")
        /\ \A i \in DOMAIN terminalLS.listed :
               /\ Granted(getCurrentDirectory, "r")
               /\ Granted(terminalLS.listed[i], "r")

====
